---- MODULE Spec2Model ----
(***************************************************************************)
(* A model of the agent execution and coordination engine:                 *)
(*   - MultiAgentConversation / LangChainAgent / ConversationState         *)
(*     (app/agent/langchain_agent.py)                                      *)
(*   - ToolCollection and ToolCallAgent (app/tool/collection.py,           *)
(*     app/agent/toolcall.py)                                              *)
(*   - GenericAgent, the Working-Backwards agent (app/agent/               *)
(*     generic_agent.py)                                                   *)
(*   - GenericAgent of enhanced_devin (enhanced_devin/core/                *)
(*     generic_agent.py, enhanced_devin/core/base_agent.py)                *)
(* Each component has its own variables and its own specification; the     *)
(* variables of the other components stay at their idle values.            *)
(***************************************************************************)
EXTENDS Integers, Sequences, FiniteSets, TLC

VARIABLES
    \* ---- MultiAgentConversation and the shared ConversationState
    agents,              \* keys of MultiAgentConversation.agents, in insertion order
    max_turns,           \* MultiAgentConversation.max_turns
    history,             \* ConversationState.history (one object, shared by reference)
    current_speaker,     \* ConversationState.current_speaker
    thinking_process,    \* ConversationState.thinking_process
    conversation_log,    \* local conversation_log of start_conversation
    current_agent_name,  \* local current_agent_name of start_conversation
    turn,                \* iterations of the for loop completed
    conv_pc,             \* position of start_conversation
    agent_run,           \* LangChainAgent.run called on a participant: the agent, the
                         \* position of run, the runs begun, and the thoughts and the
                         \* messages they recorded
    \* ---- ToolCollection and ToolCallAgent
    tools,               \* ToolCollection.tools of ToolCallAgent.available_tools
    tools_added,         \* tools created so far (gives each tool its identity)
    lookup,              \* the last get_tool(name) made by a caller and what it returned
                         \* (a local of the caller, dropped when it runs the agent)
    tool_calls,          \* ToolCallAgent.tool_calls, the pending queue
    tc_messages,         \* ToolCallAgent.messages
    tc_max_steps,        \* ToolCallAgent.max_steps
    steps_taken,         \* local steps_taken of ToolCallAgent.run
    tc_result,           \* local result of ToolCallAgent.run, then its return value
    last_act,            \* the ToolCall the last act() popped and what act() returned
    invocations,         \* every call of a tool's run, in order: the tool, the ToolCall,
                         \* the arguments passed and what the tool returned
    calls_made,          \* ToolCalls created so far (gives each ToolCall its identity)
    tc_pc,               \* position of ToolCallAgent.run
    \* ---- GenericAgent (app/agent/generic_agent.py)
    ga,                  \* the agent object: goal_state, backwards_steps, forward_plan,
                         \* completed_steps, current_step_index, plan_ready, messages and
                         \* step_result (the "result" entry of each step dict)
    ga_tools,            \* GenericAgent.available_tools.tools
    ga_max_steps,        \* GenericAgent.max_steps
    ga_steps_taken,      \* local steps_taken of GenericAgent.run
    ga_calls,            \* set_goal/think/act calls made by a caller outside run
    ga_last,             \* the last operation on the agent and what it returned
    ga_run,              \* how run was called and whether a collaborator call of it failed
    ga_pc,               \* position of GenericAgent.run
    ga_status,           \* the get_execution_status calls made: the last text, the
                         \* agent it was read from, and the number of calls
    \* ---- GenericAgent of enhanced_devin (enhanced_devin/core/generic_agent.py)
    available_tools,     \* BaseAgent.available_tools: the name of each tool
    ed_max_steps,        \* BaseAgent.max_steps
    marker_at,           \* the answer of the reasoning collaborator reachable through
                         \* run's context that says "initial state reached" (0: none)
    status,              \* BaseAgent.status
    step_count,          \* BaseAgent.step_count
    steps_history,       \* BaseAgent.steps_history
    current_plan,        \* BaseAgent.current_plan
    execution_results,   \* BaseAgent.execution_results
    errors,              \* BaseAgent.errors
    planned_backwards,   \* local backwards_steps of GenericAgent.plan
    executed,            \* ids of the steps handed to execute_step, in call order
    recoveries,          \* ids of the steps handed to _attempt_recovery
    ed_pos,              \* steps of current_plan the for loop of run has consumed
    ed_pc,               \* position of GenericAgent.run
    \* ---- BaseAgent (app/agent/base.py)
    ba_memory,           \* BaseAgent.memory: the role of each message
    ba_log,              \* the think() and act() calls made by run, with what they
                         \* returned, and the update_memory calls that raised
    ba_result,           \* what run returned
    ba_pc,               \* position of BaseAgent.run
    ba_max_steps,        \* the max_steps field a subclass of BaseAgent declares
    \* ---- HybridAgent (app/agent/hybrid_agent.py); its planning_agent is ga, its
    \* conversation is history/current_speaker/thinking_process, and the keys of
    \* its execution_agents are agents
    hy_goal,             \* HybridAgent.goal ("" for None)
    hy_max_steps,        \* HybridAgent.max_steps
    hy_pc                \* position of HybridAgent.run

convVars == <<agents, max_turns, history, current_speaker, thinking_process,
              conversation_log, current_agent_name, turn, conv_pc>>

tcVars == <<tools, tools_added, lookup, tool_calls, tc_messages, tc_max_steps, steps_taken,
            tc_result, last_act, invocations, calls_made, tc_pc>>

gaVars == <<ga, ga_tools, ga_max_steps, ga_steps_taken, ga_calls, ga_last, ga_run, ga_pc>>

edVars == <<available_tools, ed_max_steps, marker_at, status, step_count, steps_history,
            current_plan, execution_results, errors, planned_backwards, executed,
            recoveries, ed_pos, ed_pc>>

baVars == <<ba_memory, ba_log, ba_result, ba_pc, ba_max_steps>>

hyVars == <<hy_goal, hy_max_steps, hy_pc>>
stVars == <<ga_status>>
runVars == <<agent_run>>

vars == <<convVars, tcVars, gaVars, edVars, baVars, hyVars, stVars, runVars>>

\* what an action of one component leaves alone: the other components
NotConv == <<tcVars, gaVars, edVars, baVars, hyVars, stVars, runVars>>
NotTC   == <<convVars, gaVars, edVars, baVars, hyVars, stVars, runVars>>
NotGA   == <<convVars, tcVars, edVars, baVars, hyVars, stVars, runVars>>
NotED   == <<convVars, tcVars, gaVars, baVars, hyVars, stVars, runVars>>
NotBA   == <<convVars, tcVars, gaVars, edVars, hyVars, stVars, runVars>>
NotHy   == <<tcVars, edVars, baVars, stVars, runVars>>
NotRun  == <<tcVars, gaVars, edVars, baVars, hyVars, stVars>>

(***************************************************************************)
(* Bounds of the model                                                     *)
(***************************************************************************)
MaxTurns == 4
MaxTools == 2       \* tools added to a ToolCollection
MaxAgentRuns == 1    \* calls of LangChainAgent.run on the participants
MaxMemoryBA == 3     \* messages update_memory appends to a BaseAgent's memory
MaxCallsBeforeSetState == 1  \* ToolCalls created before the last set_state that queues some
MaxStepsTC == 2     \* largest max_steps of a ToolCallAgent
MaxChain == 2       \* backward steps recorded for one goal
MaxStepsGA == 2     \* largest max_steps of a GenericAgent (app)
MaxCalls == 3       \* set_goal/think/act calls a caller makes on a GenericAgent
MaxCallsBeforeRun == 1  \* of which before a call of run
MaxCallsInRun == 1  \* of which up to one made while run's act() awaits its tool
MaxEdTools == 2     \* tools given to a GenericAgent of enhanced_devin
MaxStepsED == 6     \* largest max_steps of a GenericAgent of enhanced_devin
MaxItersBA == 3     \* think() calls answered true in one BaseAgent.run
MaxStepsBA == 2     \* largest max_steps of a subclass that inherits BaseAgent.run
MaxStepsHy == 4     \* largest max_steps of a HybridAgent
MaxStatusCalls == 2 \* get_execution_status calls made on one agent

(***************************************************************************)
(* Helpers on sequences                                                    *)
(***************************************************************************)
Range(s) == {s[i] : i \in 1..Len(s)}

\* list.index(x): the first position holding x (1-based)
IndexOf(s, x) == CHOOSE i \in 1..Len(s) : s[i] = x /\ \A j \in 1..(i-1) : s[j] # x

(***************************************************************************)
(* MultiAgentConversation                                                  *)
(***************************************************************************)
AgentNames == {"A", "B", "C"}
Responses  == {"r1", "r2"}
Thoughts   == {"t1"}
InitialMessage == "hello"

HumanMessage(c) == [type |-> "human", content |-> c]
AIMessage(c)    == [type |-> "ai", content |-> c]

\* ConversationState.add_message
add_message(h, m) == Append(h, m)

\* a thought recorded under every participant's name
add_thinking_broadcast(tp, agent_name, thought) ==
    [n \in DOMAIN tp |-> Append(tp[n], thought)]

\* ConversationState.add_thinking
add_thinking(tp, agent_name, thought) ==
    [tp EXCEPT ![agent_name] = Append(@, thought)]

\* LangChainAgent.respond, its effect on the shared history
respond_history(h, response) == add_message(h, AIMessage(response))

\* LangChainAgent.receive_message, its effect on the shared history
receive_message(h, message, sender) ==
    IF sender = "human"
    THEN add_message(h, HumanMessage(message))
    ELSE add_message(h, AIMessage(message))

\* the loop "for agent_name, agent in self.agents.items(): if agent_name !=
\* current_agent_name: await agent.receive_message(response, current_agent_name)";
\* every agent holds the same ConversationState, so each call appends to h
RECURSIVE notify_others(_, _, _, _, _)
notify_others(h, names, i, response, sender) ==
    IF i > Len(names) THEN h
    ELSE notify_others(IF names[i] # sender
                       THEN receive_message(h, response, sender)
                       ELSE h,
                       names, i + 1, response, sender)

\* a rotation that never advances (used to test the round-robin property)
next_agent_stuck(names, current) == current

\* "agent_names.index(current) ; next_idx = (current_idx + 1) % len(agent_names)"
next_agent(names, current) ==
    names[((IndexOf(names, current) - 1 + 1) % Len(names)) + 1]

\* a loop that stops one turn short
more_turns_short(done, cap) == done + 1 < cap

\* "for _ in range(self.max_turns)": another iteration follows `done` turns
more_turns(done, cap) == done < cap

\* no run of a participant has been called
NoAgentRun == [agent |-> "", pc |-> "off", runs |-> 0, thoughts |-> 0, messages |-> 0]

ConvIdle ==
    /\ agents = <<>>
    /\ max_turns = 0
    /\ history = <<>>
    /\ current_speaker = ""
    /\ thinking_process = [n \in AgentNames |-> <<>>]
    /\ conversation_log = <<>>
    /\ current_agent_name = ""
    /\ turn = 0
    /\ conv_pc = "off"
    /\ agent_run = NoAgentRun

ConvInit ==
    /\ agents = <<>>
    /\ max_turns \in 0..MaxTurns
    /\ history = <<>>
    /\ current_speaker = ""
    /\ thinking_process = [n \in AgentNames |-> <<>>]
    /\ conversation_log = <<>>
    /\ current_agent_name = ""
    /\ turn = 0
    /\ conv_pc = "setup"
    /\ agent_run = NoAgentRun

\* MultiAgentConversation.add_agent: a dict assignment, so a name already
\* present keeps its position
add_agent(n) ==
    /\ conv_pc = "setup"
    /\ agents' = IF n \in Range(agents) THEN agents ELSE Append(agents, n)
    /\ UNCHANGED <<max_turns, history, current_speaker, thinking_process,
                   conversation_log, current_agent_name, turn, conv_pc>>
    /\ UNCHANGED NotConv

\* start_conversation up to the first iteration of its loop
StartConversation ==
    /\ conv_pc = "setup"
    /\ agent_run.pc \notin {"think", "respond"}
    /\ history' = add_message(history, HumanMessage(InitialMessage))
    /\ conversation_log' = <<<<"human", InitialMessage>>>>
    /\ IF agents = <<>>
       THEN \* next(iter({})) raises
            /\ conv_pc' = "raised"
            /\ UNCHANGED current_agent_name
       ELSE /\ current_agent_name' = agents[1]
            /\ conv_pc' = IF more_turns(0, max_turns) THEN "think" ELSE "done"
    /\ UNCHANGED <<agents, max_turns, current_speaker, thinking_process, turn>>
    /\ UNCHANGED NotConv

\* "await current_agent.think()": the thinking chain answers or raises
TurnThink ==
    /\ conv_pc = "think"
    /\ \/ \E t \in Thoughts :
            /\ thinking_process' = add_thinking(thinking_process, current_agent_name, t)
            /\ conv_pc' = "respond"
       \/ /\ conv_pc' = "raised"
          /\ UNCHANGED thinking_process
    /\ UNCHANGED <<agents, max_turns, history, current_speaker,
                   conversation_log, current_agent_name, turn>>
    /\ UNCHANGED NotConv

\* "response = await current_agent.respond()" and the rest of the iteration:
\* the log entry, the notification of the other agents, the next speaker
TurnRespond ==
    /\ conv_pc = "respond"
    /\ \/ \E r \in Responses :
            /\ history' = notify_others(respond_history(history, r), agents, 1,
                                        r, current_agent_name)
            /\ current_speaker' = current_agent_name
            /\ conversation_log' = Append(conversation_log, <<current_agent_name, r>>)
            /\ current_agent_name' = next_agent(agents, current_agent_name)
            /\ turn' = turn + 1
            /\ conv_pc' = IF more_turns(turn + 1, max_turns) THEN "think" ELSE "done"
       \/ /\ conv_pc' = "raised"
          /\ UNCHANGED <<history, current_speaker, conversation_log,
                         current_agent_name, turn>>
    /\ UNCHANGED <<agents, max_turns, thinking_process>>
    /\ UNCHANGED NotConv

\* LangChainAgent.run(request) of participant n, called while
\* start_conversation is not executing, up to its think(): "if request: await
\* self.receive_message(request, "human")"; with_request is false for run()
\* and for run("")
AgentRunStart(n, with_request) ==
    /\ conv_pc \in {"setup", "done"}
    /\ agent_run.pc \notin {"think", "respond"}
    /\ agent_run.runs < MaxAgentRuns
    /\ n \in Range(agents)
    /\ history' = IF with_request
                  THEN receive_message(history, InitialMessage, "human")
                  ELSE history
    /\ current_speaker' = IF with_request THEN "human" ELSE current_speaker
    /\ agent_run' = [agent_run EXCEPT !.agent = n, !.pc = "think", !.runs = @ + 1,
                                      !.messages = IF with_request THEN @ + 1 ELSE @]
    /\ UNCHANGED <<agents, max_turns, thinking_process, conversation_log,
                   current_agent_name, turn, conv_pc>>
    /\ UNCHANGED NotRun

\* "await self.think()" of run: the thinking chain answers or raises
AgentRunThink ==
    /\ agent_run.pc = "think"
    /\ \/ \E t \in Thoughts :
            /\ thinking_process' = add_thinking(thinking_process, agent_run.agent, t)
            /\ agent_run' = [agent_run EXCEPT !.pc = "respond", !.thoughts = @ + 1]
       \/ /\ agent_run' = [agent_run EXCEPT !.pc = "raised"]
          /\ UNCHANGED thinking_process
    /\ UNCHANGED <<agents, max_turns, history, current_speaker, conversation_log,
                   current_agent_name, turn, conv_pc>>
    /\ UNCHANGED NotRun

\* "return await self.respond()" of run: the response joins the shared history
\* and the agent becomes the current speaker; nobody is notified and
\* start_conversation's rotation is not touched
AgentRunRespond ==
    /\ agent_run.pc = "respond"
    /\ \/ \E r \in Responses :
            /\ history' = respond_history(history, r)
            /\ current_speaker' = agent_run.agent
            /\ agent_run' = [agent_run EXCEPT !.pc = "returned", !.messages = @ + 1]
       \/ /\ agent_run' = [agent_run EXCEPT !.pc = "raised"]
          /\ UNCHANGED <<history, current_speaker>>
    /\ UNCHANGED <<agents, max_turns, thinking_process, conversation_log,
                   current_agent_name, turn, conv_pc>>
    /\ UNCHANGED NotRun

ConvNext ==
    \/ \E n \in AgentNames : add_agent(n)
    \/ StartConversation
    \/ TurnThink
    \/ TurnRespond
    \/ \E n \in AgentNames, with_request \in BOOLEAN : AgentRunStart(n, with_request)
    \/ AgentRunThink
    \/ AgentRunRespond


(***************************************************************************)
(* ToolCollection (app/tool/collection.py)                                 *)
(***************************************************************************)
ToolNames == {"echo", "ECHO"}               \* names of the tools added
\* names ToolCalls ask for; the last holds the text run looks for in a result
CallNames == {"Echo", "nope", "terminate", "Agent execution terminated"}
ToolTexts == {"hi", "note: Agent execution terminated early"}
\* str(e) of what a tool raises
ErrorTexts == {"boom", "sub-agent: Agent execution terminated"}
None == [id |-> 0]                          \* Python's None

\* str.lower() on the names used
lower(s) ==
    CASE s = "echo" -> "echo"
      [] s = "ECHO" -> "echo"
      [] s = "Echo" -> "echo"
      [] s = "nope" -> "nope"
      [] s = "terminate" -> "terminate"
      [] s = "Agent execution terminated" -> "agent execution terminated"

\* ToolCollection.get_tool: "for tool in self.tools: if tool.name.lower() ==
\* name.lower(): return tool" and None at the end
RECURSIVE get_tool(_, _)
get_tool(ts, name) ==
    IF ts = <<>> THEN None
    ELSE IF lower(Head(ts).name) = lower(name) THEN Head(ts)
    ELSE get_tool(Tail(ts), name)

\* ToolCollection.add_tool, called before the agent runs. has_run tells whether
\* the tool's class defines the method "run" that the agents call (BaseTool
\* defines "execute" only)
add_tool(name, has_run) ==
    /\ tc_pc = "idle"
    /\ tools_added < MaxTools
    /\ tools' = Append(tools, [id |-> tools_added + 1, name |-> name, has_run |-> has_run])
    /\ tools_added' = tools_added + 1
    /\ UNCHANGED <<lookup, tool_calls, tc_messages, tc_max_steps, steps_taken,
                   tc_result, last_act, invocations, calls_made, tc_pc>>
    /\ UNCHANGED NotTC

\* the tools ts without the first one whose lower-cased name is that of name:
\* "for i, tool in enumerate(self.tools): if tool.name.lower() == name.lower():
\* self.tools.pop(i); return True"
RECURSIVE without_first(_, _)
without_first(ts, name) ==
    IF ts = <<>> THEN <<>>
    ELSE IF lower(Head(ts).name) = lower(name) THEN Tail(ts)
    ELSE <<Head(ts)>> \o without_first(Tail(ts), name)

\* ToolCollection.remove_tool, called before the agent runs: the first match
\* leaves the collection (True); without a match nothing changes (False)
remove_tool(name) ==
    /\ tc_pc = "idle"
    /\ tools' = without_first(tools, name)
    /\ UNCHANGED <<tools_added, lookup, tool_calls, tc_messages, tc_max_steps, steps_taken,
                   tc_result, last_act, invocations, calls_made, tc_pc>>
    /\ UNCHANGED NotTC

\* a caller's get_tool(name)
GetTool(name) ==
    /\ tc_pc = "idle"
    /\ lookup' = [name |-> name, tool |-> get_tool(tools, name)]
    /\ UNCHANGED <<tools, tools_added, tool_calls, tc_messages, tc_max_steps, steps_taken,
                   tc_result, last_act, invocations, calls_made, tc_pc>>
    /\ UNCHANGED NotTC

(***************************************************************************)
(* ToolCallAgent (app/agent/toolcall.py)                                   *)
(***************************************************************************)
special_tool_names == {"terminate"}

\* the strings act() and run() build, kept as records of their parts
NoActions          == [kind |-> "no_actions"]            \* "No actions to take."
Terminated         == [kind |-> "terminated"]            \* "Agent execution terminated: ..."
ToolText(t)        == [kind |-> "text", text |-> t]      \* the text the tool returned
\* "Error: Tool 'n' not found."
NotFound(n) == [kind |-> "not_found", name |-> n]
\* "Error executing tool 'n': {str(e)}"
ExecError(n, e)    == [kind |-> "exec_error", name |-> n, error |-> e]
Exhausted(r)       == [kind |-> "max_steps", last |-> r] \* "Reached maximum steps (..). Last result: r"
EmptyResult        == [kind |-> "empty"]                 \* ""

\* "Agent execution terminated" in result: the text may come from act() itself,
\* from the tool's text, from str(e), or from the tool_name quoted in an error
ContainsTerminated(r) ==
    \/ r.kind = "terminated"
    \/ r.kind = "text" /\ r.text = "note: Agent execution terminated early"
    \/ r.kind = "exec_error" /\ r.error = "sub-agent: Agent execution terminated"
    \/ r.kind \in {"not_found", "exec_error"} /\ r.name = "Agent execution terminated"

\* "not found" in result
ContainsNotFound(r) == r.kind = "not_found"

\* ToolCallAgent.update_memory
tc_update_memory(msgs, role, content) == Append(msgs, [role |-> role, content |-> content])

TCIdle ==
    /\ tools = <<>>
    /\ tools_added = 0
    /\ lookup = [name |-> "", tool |-> None]
    /\ tool_calls = <<>>
    /\ tc_messages = <<>>
    /\ tc_max_steps = 0
    /\ steps_taken = 0
    /\ tc_result = EmptyResult
    /\ last_act = [call |-> None, result |-> EmptyResult, n |-> 0]
    /\ invocations = <<>>
    /\ calls_made = 0
    /\ tc_pc = "off"

TCInit ==
    /\ tools = <<>>
    /\ tools_added = 0
    /\ lookup = [name |-> "", tool |-> None]
    /\ tool_calls = <<>>
    /\ tc_messages = <<>>
    /\ tc_max_steps \in 0..MaxStepsTC
    /\ steps_taken = 0
    /\ tc_result = EmptyResult
    /\ last_act = [call |-> None, result |-> EmptyResult, n |-> 0]
    /\ invocations = <<>>
    /\ calls_made = 0
    /\ tc_pc = "idle"

\* a ToolCall: its arguments are its own (each ToolCall carries distinct ones)
ToolCall(n, name) == [id |-> n, tool_name |-> name, tool_args |-> n]

\* the agent is built with a ToolCall already pending (the tool_calls field)
QueueToolCall(name) ==
    /\ tc_pc = "idle"
    /\ tool_calls = <<>>
    /\ tool_calls' = Append(tool_calls, ToolCall(calls_made + 1, name))
    /\ calls_made' = calls_made + 1
    /\ UNCHANGED <<tools, tools_added, lookup, tc_messages, tc_max_steps, steps_taken,
                   tc_result, last_act, invocations, tc_pc>>
    /\ UNCHANGED NotTC

\* ToolCallAgent.set_state(state), called before the agent runs: messages and
\* tool_calls are replaced by the state's
set_state(msgs, names) ==
    /\ tc_pc = "idle"
    /\ calls_made <= MaxCallsBeforeSetState
    /\ tc_messages' = msgs
    /\ tool_calls' = [i \in 1..Len(names) |-> ToolCall(calls_made + i, names[i])]
    /\ calls_made' = calls_made + Len(names)
    /\ UNCHANGED <<tools, tools_added, lookup, tc_max_steps, steps_taken,
                   tc_result, last_act, invocations, tc_pc>>
    /\ UNCHANGED NotTC

\* an end of run that reports exhaustion only past the limit
tc_return_strict(steps, result) ==
    IF steps > tc_max_steps THEN Exhausted(result) ELSE result

\* the end of run: "if steps_taken >= self.max_steps: result = Reached ..."
tc_return(steps, result) ==
    IF steps >= tc_max_steps THEN Exhausted(result) ELSE result

\* ToolCallAgent.run up to the first think(): "if request:
\* self.update_memory("user", request)"; with_request is false for run() and
\* for run("")
TCRunStart(with_request) ==
    /\ tc_pc = "idle"
    /\ tc_messages' = IF with_request
                      THEN tc_update_memory(tc_messages, "user", "request")
                      ELSE tc_messages
    /\ steps_taken' = 0
    /\ IF 0 < tc_max_steps
       THEN tc_pc' = "think" /\ tc_result' = EmptyResult
       ELSE tc_pc' = "done" /\ tc_result' = tc_return(0, EmptyResult)
    /\ lookup' = [name |-> "", tool |-> None]
    /\ UNCHANGED <<tools, tools_added, tool_calls, tc_max_steps, last_act,
                   invocations, calls_made>>
    /\ UNCHANGED NotTC

\* "has_actions = await self.think()": think is the subclass's; it may queue a
\* ToolCall and answers true or false
TCThink ==
    /\ tc_pc = "think"
    /\ \/ UNCHANGED <<tool_calls, calls_made>>
       \/ \E name \in CallNames :
            /\ tool_calls' = Append(tool_calls, ToolCall(calls_made + 1, name))
            /\ calls_made' = calls_made + 1
    /\ \/ tc_pc' = "act" /\ UNCHANGED tc_result
       \/ /\ tc_pc' = "done"                   \* "if not has_actions: break"
          /\ tc_result' = tc_return(steps_taken, tc_result)
    /\ UNCHANGED <<tools, tools_added, lookup, tc_messages, tc_max_steps, steps_taken,
                   last_act, invocations>>
    /\ UNCHANGED NotTC

\* what "await tool.run(**tool_call.tool_args)" inside try/except gives for
\* tool t: without a "run" attribute the call fails before the tool is entered
RunOutcomes(t, tool_name) ==
    IF t.has_run
    THEN {[invoked |-> TRUE, returned |-> x, result |-> ToolText(x)] : x \in ToolTexts}
         \cup {[invoked |-> TRUE, returned |-> "raised", result |-> ExecError(tool_name, e)]
                 : e \in ErrorTexts}
    ELSE {[invoked |-> FALSE, returned |-> "raised",
           result |-> ExecError(tool_name, "object has no attribute 'run'")]}

\* ToolCallAgent.act: the outcomes for the queue q, as records
\* [queue, call, result, invoked, returned, tool]
act_outcomes(q) ==
    IF q = <<>>
    THEN {[queue |-> q, call |-> None, result |-> NoActions, invoked |-> FALSE,
           returned |-> "", tool |-> None]}
    ELSE LET tool_call == Head(q)
             rest == Tail(q)
             tool == get_tool(tools, tool_call.tool_name)
         IN IF tool_call.tool_name \in special_tool_names /\ tool_call.tool_name = "terminate"
            THEN {[queue |-> rest, call |-> tool_call, result |-> Terminated,
                   invoked |-> FALSE, returned |-> "", tool |-> None]}
            ELSE IF tool = None
            THEN {[queue |-> rest, call |-> tool_call, result |-> NotFound(tool_call.tool_name),
                   invoked |-> FALSE, returned |-> "", tool |-> None]}
            ELSE {[queue |-> rest, call |-> tool_call, result |-> o.result,
                   invoked |-> o.invoked, returned |-> o.returned, tool |-> tool]
                    : o \in RunOutcomes(tool, tool_call.tool_name)}

\* the rest of the iteration of run's loop once act() has returned result:
\* update_memory("system", result), the termination test, steps_taken += 1
end_of_iteration(result) ==
    /\ tc_messages' = tc_update_memory(tc_messages, "system", result)
    /\ IF ContainsTerminated(result)
       THEN /\ steps_taken' = steps_taken
            /\ tc_pc' = "done"
            /\ tc_result' = tc_return(steps_taken, result)
       ELSE /\ steps_taken' = steps_taken + 1
            /\ IF steps_taken + 1 < tc_max_steps
               THEN tc_pc' = "think" /\ tc_result' = result
               ELSE tc_pc' = "done" /\ tc_result' = tc_return(steps_taken + 1, result)

\* "result = await self.act()": act() pops the ToolCall and, when it enters the
\* tool ("await tool.run(..)"), is suspended inside it; otherwise it returns at
\* once and the iteration of run's loop is completed. last_act.result and
\* invocations[..].returned of a suspended act() tell what the tool is going to
\* give
TCAct ==
    /\ tc_pc = "act"
    /\ \E o \in act_outcomes(tool_calls) :
         /\ tool_calls' = o.queue
         /\ last_act' = [call |-> o.call, result |-> o.result, n |-> last_act.n + 1]
         /\ IF o.invoked
            THEN /\ invocations' = Append(invocations,
                                          [tool |-> o.tool.id, call |-> o.call.id,
                                           args |-> o.call.tool_args,
                                           returned |-> o.returned])
                 /\ tc_pc' = "in_tool"
                 /\ UNCHANGED <<tc_messages, steps_taken, tc_result>>
            ELSE /\ invocations' = invocations
                 /\ end_of_iteration(o.result)
    /\ UNCHANGED <<tools, tools_added, lookup, tc_max_steps, calls_made>>
    /\ UNCHANGED NotTC

\* the tool returns or raises: act() gives its result and the iteration of
\* run's loop is completed
TCActResume ==
    /\ tc_pc = "in_tool"
    /\ end_of_iteration(last_act.result)
    /\ UNCHANGED <<tools, tools_added, lookup, tool_calls, tc_max_steps, last_act,
                   invocations, calls_made>>
    /\ UNCHANGED NotTC

TCNext ==
    \/ \E name \in ToolNames, has_run \in BOOLEAN : add_tool(name, has_run)
    \/ \E name \in ToolNames \cup CallNames : remove_tool(name)
    \/ \E name \in ToolNames \cup CallNames : GetTool(name)
    \/ \E name \in CallNames : QueueToolCall(name)
    \/ \E msgs \in {<<>>, <<[role |-> "user", content |-> "saved"]>>},
          names \in {<<>>, <<"Echo">>, <<"nope", "Echo">>} : set_state(msgs, names)
    \/ \E with_request \in BOOLEAN : TCRunStart(with_request)
    \/ TCThink
    \/ TCAct
    \/ TCActResume

(***************************************************************************)
(* GenericAgent, the Working-Backwards agent (app/agent/generic_agent.py)  *)
(***************************************************************************)
\* What the reasoning collaborator may answer, by what the agent reads in it:
\* marker "none": no "use tool:" line; "lower": a line "use tool: <name> ..";
\* "mixed": the marker spelled with capitals ("Use Tool: <name>")
Plain        == [text |-> "answer", marker |-> "none", name |-> ""]
UseTool(n)   == [text |-> "answer", marker |-> "lower", name |-> n]
UseToolCaps  == [text |-> "answer", marker |-> "mixed", name |-> "Echo"]
Answers      == {Plain, UseTool("Echo"), UseTool("nope"), UseToolCaps}
\* the texts the agent writes itself
Note(t)      == [text |-> t, marker |-> "none", name |-> ""]

NoTool     == [id |-> 0]
IndexError == [id |-> -1]

\* a memory that keeps nothing
ga_update_memory_dropped(a, role, content) == a

\* GenericAgent.update_memory
ga_update_memory(a, role, content) ==
    [a EXCEPT !.messages = Append(@, [role |-> role, content |-> content])]

\* GenericAgent._extract_tool_from_response: the marker is searched in the
\* lower-cased response but the line is split on the lower-case marker, so a
\* marker spelled with capitals makes "split(..)[1]" raise IndexError; the
\* tool is the first of available_tools.tools whose lower-cased name matches
extract_tool_from_response(content) ==
    IF content.marker = "none" THEN NoTool
    ELSE IF content.marker = "mixed" THEN IndexError
    ELSE get_tool(ga_tools, content.name)

\* a planner that keeps the discovery order
not_reversed(s) == s

\* list(reversed(s))
RECURSIVE reversed(_)
reversed(s) ==
    IF s = <<>> THEN <<>>
    ELSE <<s[Len(s)]>> \o reversed(SubSeq(s, 1, Len(s) - 1))

StepIds == 1..(MaxChain + 1)

NewAgent ==
    [goal_state |-> "",
     backwards_steps |-> <<>>,
     forward_plan |-> <<>>,
     completed_steps |-> <<>>,
     current_step_index |-> 0,
     plan_ready |-> FALSE,
     current_progress |-> <<"No progress yet. Planning phase.">>,
     step_result |-> [i \in StepIds |-> "none"],
     messages |-> <<[role |-> "system", content |-> Note("system_prompt")]>>]

\* GenericAgent.set_goal
set_goal(a, goal) ==
    LET a1 == [a EXCEPT !.goal_state = goal,
                        !.backwards_steps = <<>>,
                        !.forward_plan = <<>>,
                        !.plan_ready = FALSE,
                        !.current_step_index = 0,
                        !.completed_steps = <<>>,
                        !.step_result = [i \in StepIds |-> "none"]]
    IN ga_update_memory(ga_update_memory(a1, "system", Note("goal_set")),
                        "user", Note("goal_clarification"))

\* GenericAgent._organize_plan; ok: the collaborator answered, and
\* planning_result is its answer
organize_plan(a, ok, planning_result) ==
    IF a.backwards_steps = <<>> THEN a
    ELSE LET a1 == ga_update_memory(a, "user", Note("planning_prompt"))
         IN IF ~ok
            THEN ga_update_memory(a1, "system", Note("error_planning"))
            ELSE [ga_update_memory(a1, "assistant", planning_result)
                    EXCEPT !.forward_plan = reversed(a.backwards_steps),
                           !.plan_ready = TRUE,
                           !.current_progress = <<"Plan created with n steps.",
                                                  Len(a.backwards_steps)>>]

\* a failure of the collaborator that lets the iteration go on
thinking_failed_continues(a1) ==
    [agent |-> ga_update_memory(a1, "system", Note("error_thinking")),
     ret |-> "true", failed |-> TRUE]

\* think's "except Exception": the error goes to memory and think answers False
thinking_failed(a1) ==
    [agent |-> ga_update_memory(a1, "system", Note("error_thinking")),
     ret |-> "false", failed |-> TRUE]

\* GenericAgent.think: every outcome, as [agent, ret, failed]; ret is what
\* think returns ("true"/"false") or "raised"; failed: a collaborator call failed
think_results(a) ==
    LET a1 == ga_update_memory(a, "user", Note("next_step_prompt"))
        answered(c) ==
            LET a2 == ga_update_memory(a1, "assistant", c)
                tool_to_use == extract_tool_from_response(c)
            IN IF tool_to_use = IndexError
               THEN {[agent |-> a2, ret |-> "raised", failed |-> FALSE]}
               ELSE IF tool_to_use # NoTool
               THEN {[agent |-> a2, ret |-> "true", failed |-> FALSE]}
               ELSE IF ~a2.plan_ready /\ a2.backwards_steps # <<>>
               THEN {[agent |-> organize_plan(a2, FALSE, Plain), ret |-> "true",
                      failed |-> TRUE]}
                    \cup {[agent |-> organize_plan(a2, TRUE, p), ret |-> "true",
                           failed |-> FALSE] :
                           p \in {[p0 EXCEPT !.text = "planning_result"] : p0 \in Answers}}
               ELSE IF a2.plan_ready /\ a2.current_step_index >= Len(a2.forward_plan)
               THEN {[agent |-> a2, ret |-> "false", failed |-> FALSE]}
               ELSE {[agent |-> a2, ret |-> "true", failed |-> FALSE]}
    IN {thinking_failed(a1)} \cup UNION {answered(c) : c \in Answers}

\* a cursor that moves back when a step is resolved
complete_step_rewind(a, how) ==
    LET step == a.forward_plan[a.current_step_index + 1]
    IN [a EXCEPT !.step_result[step] = how,
                 !.completed_steps = Append(@, step),
                 !.current_step_index = @ - 1,
                 !.current_progress = <<"Completed step i/n", a.current_step_index - 1,
                                        Len(a.forward_plan)>>]

\* the step of the plan is resolved: its result is recorded on the step dict,
\* the step joins completed_steps and the cursor moves on
complete_step(a, how) ==
    LET step == a.forward_plan[a.current_step_index + 1]
    IN [a EXCEPT !.step_result[step] = how,
                 !.completed_steps = Append(@, step),
                 !.current_step_index = @ + 1,
                 !.current_progress = <<"Completed step i/n", a.current_step_index + 1,
                                        Len(a.forward_plan)>>]

\* a test that finds no step to execute
step_pending_never(a) == FALSE

\* "if self.plan_ready and self.current_step_index < len(self.forward_plan)"
step_pending(a) == a.plan_ready /\ a.current_step_index < Len(a.forward_plan)

\* GenericAgent.act up to its return or, when it enters a tool
\* ("result = await tool.run(**args)"), up to that await: every outcome, as
\* [agent, ret, failed]; ret is the kind of text act returns, "raised", or
\* "in_tool" when act is suspended in the tool with nothing written yet.  A
\* tool whose run cannot be called, or that raises before it suspends, fails
\* at once
act_results(a) ==
    LET last_message == a.messages[Len(a.messages)]
        tool_info == IF last_message.role = "assistant"
                     THEN extract_tool_from_response(last_message.content)
                     ELSE NoTool
        in_plan == step_pending(a)
    IN IF tool_info = IndexError
       THEN {[agent |-> a, ret |-> "raised", failed |-> FALSE]}
       ELSE IF tool_info # NoTool
       THEN (IF tool_info.has_run
             THEN {[agent |-> a, ret |-> "in_tool", failed |-> FALSE]}
             ELSE {})
            \cup {[agent |-> ga_update_memory(a, "system", Note("tool_error")),
                   ret |-> "tool_error", failed |-> FALSE]}
       ELSE IF in_plan
       THEN {[agent |-> ga_update_memory(a, "system", Note("error_step")),
              ret |-> "step_error", failed |-> TRUE]}
            \cup {[agent |-> complete_step(ga_update_memory(a, "assistant", c), "answer"),
                   ret |-> "step_text", failed |-> FALSE] : c \in Answers}
       ELSE {[agent |-> a, ret |-> "no_action", failed |-> FALSE]}

\* GenericAgent.act from the moment the tool returns or raises: the result is
\* recorded, and the step of the plan that is pending at that moment (after
\* whatever was called on the agent during the await) is resolved
act_resume_results(a) ==
    LET a1 == [ga_update_memory(a, "system", Note("tool_result"))
                 EXCEPT !.current_progress = <<"Executed tool">>]
    IN {[agent |-> IF step_pending(a1) THEN complete_step(a1, "tool") ELSE a1,
         ret |-> "tool_text", failed |-> FALSE],
        [agent |-> ga_update_memory(a, "system", Note("tool_error")),
         ret |-> "tool_error", failed |-> FALSE]}

GAToolSets == {<<>>,
               <<[id |-> 1, name |-> "echo", has_run |-> TRUE]>>,
               <<[id |-> 1, name |-> "ECHO", has_run |-> FALSE]>>}

\* a status call that keeps its report in the agent's memory
get_execution_status_recording(a) ==
    LET in_plan == a.plan_ready /\ a.current_step_index < Len(a.forward_plan)
    IN [agent |-> ga_update_memory(a, "system", Note("status")),
        text |->
          [goal |-> a.goal_state,
           plan_steps |-> a.forward_plan,
           current_step |-> IF in_plan
                            THEN <<a.current_step_index + 1, Len(a.forward_plan),
                                   a.forward_plan[a.current_step_index + 1]>>
                            ELSE <<>>,
           completed_steps |-> [i \in 1..Len(a.completed_steps) |->
                                  <<a.completed_steps[i], a.step_result[a.completed_steps[i]]>>],
           pending_steps |-> IF in_plan
                             THEN SubSeq(a.forward_plan, a.current_step_index + 1,
                                         Len(a.forward_plan))
                             ELSE <<>>,
           observations |-> a.current_progress]]

\* GenericAgent.get_execution_status: the agent as the call leaves it and the
\* arguments given to the template.  The body assigns to no attribute and calls
\* no method of the agent: it reads goal_state, forward_plan, completed_steps,
\* current_step_index, plan_ready and current_progress, builds new lists (list
\* comprehensions, the slice forward_plan[current_step_index:]) and reads the
\* steps with .get.  An empty plan_steps is "No plan yet", an empty
\* current_step "Planning phase", an empty completed_steps "None", an empty
\* pending_steps "All steps completed"
get_execution_status(a) ==
    LET in_plan == a.plan_ready /\ a.current_step_index < Len(a.forward_plan)
    IN [agent |-> a,
        text |->
          [goal |-> a.goal_state,
           plan_steps |-> a.forward_plan,
           current_step |-> IF in_plan
                            THEN <<a.current_step_index + 1, Len(a.forward_plan),
                                   a.forward_plan[a.current_step_index + 1]>>
                            ELSE <<>>,
           completed_steps |-> [i \in 1..Len(a.completed_steps) |->
                                  <<a.completed_steps[i], a.step_result[a.completed_steps[i]]>>],
           pending_steps |-> IF in_plan
                             THEN SubSeq(a.forward_plan, a.current_step_index + 1,
                                         Len(a.forward_plan))
                             ELSE <<>>,
           observations |-> a.current_progress]]

\* no call made yet
NoStatus ==
    [text |-> [goal |-> "", plan_steps |-> <<>>, current_step |-> <<>>,
               completed_steps |-> <<>>, pending_steps |-> <<>>,
               observations |-> <<"No progress yet. Planning phase.">>],
     of |-> NewAgent,
     calls |-> 0]

NoRun == [requested |-> FALSE, failed |-> FALSE]

GAIdle ==
    /\ ga = NewAgent
    /\ ga_tools = <<>>
    /\ ga_max_steps = 0
    /\ ga_steps_taken = 0
    /\ ga_calls = 0
    /\ ga_last = [op |-> "init", ret |-> ""]
    /\ ga_run = NoRun
    /\ ga_pc = "off"
    /\ ga_status = NoStatus

GAInit ==
    /\ ga = NewAgent
    /\ ga_tools \in GAToolSets
    /\ ga_max_steps \in 0..MaxStepsGA
    /\ ga_steps_taken = 0
    /\ ga_calls = 0
    /\ ga_last = [op |-> "init", ret |-> ""]
    /\ ga_run = NoRun
    /\ ga_pc = "idle"
    /\ ga_status = NoStatus

\* a caller's "await agent.get_execution_status()", at any point of the agent's life
GAStatusCall ==
    /\ ga_pc # "off"
    /\ ga_status.calls < MaxStatusCalls
    /\ LET r == get_execution_status(ga)
       IN /\ ga' = r.agent
          /\ ga_status' = [text |-> r.text, of |-> ga, calls |-> ga_status.calls + 1]
    /\ UNCHANGED <<ga_tools, ga_max_steps, ga_steps_taken, ga_calls, ga_last, ga_run, ga_pc>>
    /\ UNCHANGED <<convVars, tcVars, edVars, baVars, hyVars, runVars>>

\* a caller's "await agent.set_goal(goal)", between calls or while an act() is
\* suspended in its tool
GASetGoal ==
    /\ ga_pc \in {"idle", "in_tool", "call_in_tool"}
    /\ ga_calls < (IF ga_pc = "in_tool" THEN MaxCallsInRun ELSE MaxCalls)
    /\ ga' = set_goal(ga, "goal")
    /\ ga_calls' = ga_calls + 1
    /\ ga_last' = [op |-> "set_goal", ret |-> ""]
    /\ UNCHANGED <<ga_tools, ga_max_steps, ga_steps_taken, ga_run, ga_pc>>
    /\ UNCHANGED NotGA

\* a backward step is recorded: nothing in the agent appends to
\* backwards_steps, so this is the owner of the agent writing the field
RecordBackwardStep ==
    /\ ga_pc = "idle"
    /\ ga.goal_state # ""
    /\ Len(ga.backwards_steps) < MaxChain
    /\ ga' = [ga EXCEPT !.backwards_steps = Append(@, Len(@) + 1)]
    /\ ga_last' = [op |-> "record", ret |-> ""]
    /\ UNCHANGED <<ga_tools, ga_max_steps, ga_steps_taken, ga_calls, ga_run, ga_pc>>
    /\ UNCHANGED NotGA

\* a caller's "await agent.think()", between calls or while an act() is
\* suspended in its tool
GAThinkCall ==
    /\ ga_pc \in {"idle", "in_tool", "call_in_tool"}
    /\ ga_calls < (IF ga_pc = "in_tool" THEN MaxCallsInRun ELSE MaxCalls)
    /\ \E r \in think_results(ga) :
         /\ ga' = r.agent
         /\ ga_last' = [op |-> "think", ret |-> r.ret]
    /\ ga_calls' = ga_calls + 1
    /\ UNCHANGED <<ga_tools, ga_max_steps, ga_steps_taken, ga_run, ga_pc>>
    /\ UNCHANGED NotGA

\* a caller's "await agent.act()", up to its return or to the await of the tool
GAActCall ==
    /\ ga_pc = "idle"
    /\ ga_calls < MaxCalls
    /\ \E r \in act_results(ga) :
         IF r.ret = "in_tool"
         THEN /\ ga_pc' = "call_in_tool"
              /\ UNCHANGED <<ga, ga_last>>
         ELSE /\ ga' = r.agent
              /\ ga_last' = [op |-> "act", ret |-> r.ret]
              /\ UNCHANGED ga_pc
    /\ ga_calls' = ga_calls + 1
    /\ UNCHANGED <<ga_tools, ga_max_steps, ga_steps_taken, ga_run>>
    /\ UNCHANGED NotGA

\* the tool returns or raises and the caller's act() returns
GAActResume ==
    /\ ga_pc = "call_in_tool"
    /\ \E r \in act_resume_results(ga) :
         /\ ga' = r.agent
         /\ ga_last' = [op |-> "act", ret |-> r.ret]
    /\ ga_pc' = "idle"
    /\ UNCHANGED <<ga_tools, ga_max_steps, ga_steps_taken, ga_calls, ga_run>>
    /\ UNCHANGED NotGA

\* a test of the goal that lets every run through
goal_missing_ignored(g) == FALSE

\* "if not self.goal_state" (GenericAgent.run), "if not self.goal" (HybridAgent.run)
goal_missing(g) == g = ""

\* GenericAgent.run up to the first think(): set_goal when a request is given,
\* ValueError when no goal is set
GARunStart(with_request) ==
    /\ ga_pc = "idle"
    /\ ga_calls <= MaxCallsBeforeRun
    /\ LET a == IF with_request THEN set_goal(ga, "goal") ELSE ga
       IN /\ ga' = a
          /\ ga_pc' = IF goal_missing(a.goal_state) THEN "raised"
                      ELSE IF 0 < ga_max_steps THEN "think" ELSE "summary"
    /\ ga_steps_taken' = 0
    /\ ga_run' = [requested |-> with_request, failed |-> FALSE]
    /\ ga_last' = [op |-> "run", ret |-> ""]
    /\ UNCHANGED <<ga_tools, ga_max_steps, ga_calls>>
    /\ UNCHANGED NotGA

\* "should_continue = await self.think()" in run's loop
GARunThink ==
    /\ ga_pc = "think"
    /\ \E r \in think_results(ga) :
         /\ ga' = r.agent
         /\ ga_last' = [op |-> "think", ret |-> r.ret]
         /\ ga_run' = [ga_run EXCEPT !.failed = @ \/ r.failed]
         /\ ga_pc' = CASE r.ret = "raised" -> "raised"
                       [] r.ret = "false" -> "summary"
                       [] r.ret = "true" -> "act"
    /\ UNCHANGED <<ga_tools, ga_max_steps, ga_steps_taken, ga_calls>>
    /\ UNCHANGED NotGA

\* "await self.act(); steps_taken += 1" in run's loop, up to the end of the
\* iteration or to the await of the tool
GARunAct ==
    /\ ga_pc = "act"
    /\ \E r \in act_results(ga) :
         IF r.ret = "in_tool"
         THEN /\ ga_pc' = "in_tool"
              /\ UNCHANGED <<ga, ga_last, ga_run, ga_steps_taken>>
         ELSE /\ ga' = r.agent
              /\ ga_last' = [op |-> "act", ret |-> r.ret]
              /\ ga_run' = [ga_run EXCEPT !.failed = @ \/ r.failed]
              /\ IF r.ret = "raised"
                 THEN ga_pc' = "raised" /\ UNCHANGED ga_steps_taken
                 ELSE /\ ga_steps_taken' = ga_steps_taken + 1
                      /\ ga_pc' = IF ga_steps_taken + 1 < ga_max_steps
                                  THEN "think" ELSE "summary"
    /\ UNCHANGED <<ga_tools, ga_max_steps, ga_calls>>
    /\ UNCHANGED NotGA

\* the tool returns or raises: act() returns its text and the iteration of
\* run's loop is completed
GARunActResume ==
    /\ ga_pc = "in_tool"
    /\ \E r \in act_resume_results(ga) :
         /\ ga' = r.agent
         /\ ga_last' = [op |-> "act", ret |-> r.ret]
    /\ ga_steps_taken' = ga_steps_taken + 1
    /\ ga_pc' = IF ga_steps_taken + 1 < ga_max_steps THEN "think" ELSE "summary"
    /\ UNCHANGED <<ga_tools, ga_max_steps, ga_calls, ga_run>>
    /\ UNCHANGED NotGA

\* "summary = await self._generate_summary(); return summary": the collaborator
\* answers or fails, and a text is returned either way
GARunSummary ==
    /\ ga_pc = "summary"
    /\ \E ok \in BOOLEAN :
         /\ ga_last' = [op |-> "summary", ret |-> IF ok THEN "summary" ELSE "summary_error"]
         /\ ga_run' = [ga_run EXCEPT !.failed = @ \/ ~ok]
    /\ ga_pc' = "done"
    /\ UNCHANGED <<ga, ga_tools, ga_max_steps, ga_steps_taken, ga_calls>>
    /\ UNCHANGED NotGA

GANext ==
    \/ GASetGoal
    \/ RecordBackwardStep
    \/ GAThinkCall
    \/ GAActCall
    \/ GAActResume
    \/ \E with_request \in BOOLEAN : GARunStart(with_request)
    \/ GARunThink
    \/ GARunAct
    \/ GARunActResume
    \/ GARunSummary

(***************************************************************************)
(* GenericAgent of enhanced_devin (enhanced_devin/core/generic_agent.py,   *)
(* enhanced_devin/core/base_agent.py)                                      *)
(***************************************************************************)
\* "for i in range(5)" and "step_{5-i}" of _work_backwards
ChainLen == 5

\* f"tool_{i}"
tool_name(i) == CASE i = 0 -> "tool_0"
                  [] i = 1 -> "tool_1"
                  [] i = 2 -> "tool_2"
                  [] i = 3 -> "tool_3"
                  [] i = 4 -> "tool_4"

\* a tool object is known by its name attribute; NoNameAttr is an object
\* without one, on which "tool.name" raises AttributeError
NoNameAttr == "<no name attribute>"
EdToolNames == {"tool_0", "tool_1", "other", NoNameAttr}

\* a recovery that always works
attempt_recovery_succeeds == TRUE

\* GenericAgent._attempt_recovery
attempt_recovery == FALSE

\* a step cap that is hit one step early
cap_reached_early(count, cap) == count + 1 >= cap

\* "if self.step_count >= self.max_steps" of run
cap_reached(count, cap) == count >= cap

\* GenericAgent._work_backwards: five steps step_5 .. step_1, the i-th found
\* (i from 0) naming tool_i when the agent has more than i tools
work_backwards(tool_list) ==
    [j \in 1..ChainLen |->
        [id |-> ChainLen - (j - 1),
         tool |-> IF j - 1 < Len(tool_list) THEN tool_name(j - 1) ELSE "none"]]

\* GenericAgent._refine_plan
refine_plan(p) == p

\* GenericAgent.plan, from the backward steps
plan(backwards) == refine_plan(reversed(backwards))

\* GenericAgent._get_tool_by_name: index of the first tool with that name, 0
\* for None, -1 when a tool without name attribute is met first
RECURSIVE get_tool_by_name(_, _, _)
get_tool_by_name(tool_list, i, name) ==
    IF i > Len(tool_list) THEN 0
    ELSE IF tool_list[i] = NoNameAttr THEN -1
    ELSE IF tool_list[i] = name THEN i
    ELSE get_tool_by_name(tool_list, i + 1, name)

Raised == [status |-> "raised", kind |-> "exception", tool |-> "none"]

\* GenericAgent.execute_step: every outcome; Raised when the call itself raises
execute_step(step) ==
    IF step.tool # "none"
    THEN LET t == get_tool_by_name(available_tools, 1, step.tool)
         IN IF t = -1 THEN {Raised}
            ELSE IF t # 0
            THEN {[status |-> "success", kind |-> "tool", tool |-> step.tool],
                  [status |-> "failed", kind |-> "tool_error", tool |-> step.tool]}
            ELSE {[status |-> "failed", kind |-> "not_found", tool |-> "none"]}
    ELSE {[status |-> "success", kind |-> "reasoning", tool |-> "none"]}

RECURSIVE SeqsUpTo(_, _)
SeqsUpTo(S, n) ==
    IF n = 0 THEN {<<>>}
    ELSE LET shorter == SeqsUpTo(S, n - 1)
         IN shorter \cup {Append(q, x) : q \in shorter, x \in S}

EDIdle ==
    /\ available_tools = <<>>
    /\ ed_max_steps = 0
    /\ marker_at = 0
    /\ status = "idle"
    /\ step_count = 0
    /\ steps_history = <<>>
    /\ current_plan = <<>>
    /\ execution_results = <<>>
    /\ errors = <<>>
    /\ planned_backwards = <<>>
    /\ executed = <<>>
    /\ recoveries = <<>>
    /\ ed_pos = 0
    /\ ed_pc = "off"

\* BaseAgent.__init__
EDInit ==
    /\ available_tools \in SeqsUpTo(EdToolNames, MaxEdTools)
    /\ ed_max_steps \in 0..MaxStepsED
    /\ marker_at \in 0..ChainLen
    /\ status = "idle"
    /\ step_count = 0
    /\ steps_history = <<>>
    /\ current_plan = <<>>
    /\ execution_results = <<>>
    /\ errors = <<>>
    /\ planned_backwards = <<>>
    /\ executed = <<>>
    /\ recoveries = <<>>
    /\ ed_pos = 0
    /\ ed_pc = "idle"

\* run up to the loop: _start_execution, the planning phase, status EXECUTING
EDRunStart ==
    /\ ed_pc = "idle"
    /\ step_count' = 0
    /\ steps_history' = <<>>
    /\ execution_results' = <<>>
    /\ errors' = <<>>
    /\ planned_backwards' = work_backwards(available_tools)
    /\ current_plan' = plan(work_backwards(available_tools))
    /\ status' = "executing"
    /\ ed_pos' = 0
    /\ ed_pc' = "loop"
    /\ UNCHANGED <<available_tools, ed_max_steps, marker_at, executed, recoveries>>
    /\ UNCHANGED NotED

\* a loop that comes back to the failed step
after_failed_recovery_retry == "loop"

\* "break" after a recovery that did not succeed: the loop is left
after_failed_recovery == "after_loop"

\* a cap that ends the run without failing it
cap_status_stopped == "stopped"

\* "self._end_execution(AgentStatus.FAILED)" when the cap is met
cap_status == "failed"

\* BaseAgent._track_step
track_step(hist, step, result) == Append(hist, [step |-> step, result |-> result])

\* the rest of an iteration of "for step in self.current_plan" once
\* execute_step has returned result or raised: _track_step, the result
\* recorded, and for a failure _log_error, _attempt_recovery, _end_execution
step_done(step, result) ==
    /\ step_count' = step_count + 1
    /\ IF result = Raised
       THEN /\ steps_history' = track_step(steps_history, step,
                   [status |-> "failed", kind |-> "exception", tool |-> "none"])
            /\ UNCHANGED execution_results
       ELSE /\ steps_history' = track_step(steps_history, step, result)
            /\ execution_results' = Append(execution_results, result)
    /\ IF result.status = "success"
       THEN /\ ed_pos' = ed_pos + 1
            /\ ed_pc' = "loop"
            /\ UNCHANGED <<errors, recoveries, status>>
       ELSE /\ errors' = Append(errors, [error |-> result.kind, step |-> step.id])
            /\ recoveries' = Append(recoveries, step.id)
            /\ IF ~attempt_recovery
               THEN /\ status' = "failed"
                    /\ ed_pc' = after_failed_recovery
                    /\ UNCHANGED ed_pos
               ELSE /\ ed_pos' = ed_pos + 1
                    /\ ed_pc' = "loop"
                    /\ UNCHANGED status

\* one iteration of "for step in self.current_plan", up to its end or, when
\* execute_step enters the step's tool ("await tool.run(..)"), up to that await:
\* the step has been handed to execute_step and nothing is recorded yet.  A
\* tool whose run cannot be called fails without being entered
EDStep ==
    /\ ed_pc = "loop"
    /\ ed_pos < Len(current_plan)
    /\ LET step == current_plan[ed_pos + 1]
       IN IF cap_reached(step_count, ed_max_steps)
          THEN /\ errors' = Append(errors, [error |-> "exceeded_max_steps", step |-> 0])
               /\ status' = cap_status
               /\ ed_pc' = "after_loop"
               /\ UNCHANGED <<step_count, steps_history, execution_results, executed,
                              recoveries, ed_pos>>
          ELSE /\ executed' = Append(executed, step.id)
               /\ \/ \E result \in execute_step(step) :
                       /\ result.kind # "tool"
                       /\ step_done(step, result)
                  \/ /\ \E result \in execute_step(step) : result.kind = "tool"
                     /\ ed_pc' = "in_tool"
                     /\ UNCHANGED <<step_count, steps_history, execution_results, errors,
                                    recoveries, status, ed_pos>>
    /\ UNCHANGED <<available_tools, ed_max_steps, marker_at, current_plan, planned_backwards>>
    /\ UNCHANGED NotED

\* the tool returns or raises: execute_step gives its result and the iteration
\* is completed
EDStepResume ==
    /\ ed_pc = "in_tool"
    /\ \E result \in execute_step(current_plan[ed_pos + 1]) :
         /\ result.kind \in {"tool", "tool_error"}
         /\ step_done(current_plan[ed_pos + 1], result)
    /\ UNCHANGED <<available_tools, ed_max_steps, marker_at, current_plan, planned_backwards,
                   executed>>
    /\ UNCHANGED NotED

\* after the loop: COMPLETED unless FAILED, and the report is returned
EDRunEnd ==
    /\ \/ ed_pc = "after_loop"
       \/ ed_pc = "loop" /\ ed_pos = Len(current_plan)
    /\ status' = IF status # "failed" THEN "completed" ELSE status
    /\ ed_pc' = "returned"
    /\ UNCHANGED <<available_tools, ed_max_steps, marker_at, step_count, steps_history, current_plan,
                   execution_results, errors, planned_backwards, executed, recoveries,
                   ed_pos>>
    /\ UNCHANGED NotED

EDNext ==
    \/ EDRunStart
    \/ EDStep
    \/ EDStepResume
    \/ EDRunEnd

(***************************************************************************)
(* BaseAgent.run (app/agent/base.py)                                       *)
(***************************************************************************)
\* what a subclass's act() may return
ActTexts == {"ok", "TERMINATING: bye", "TERMINATING:", "note TERMINATING: x",
             "terminating: y"}

\* a marker test that accepts the marker anywhere in the text
contains_terminating(r) ==
    r \in {"TERMINATING: bye", "TERMINATING:", "note TERMINATING: x"}

\* result.startswith("TERMINATING:")
startswith_terminating(r) == r \in {"TERMINATING: bye", "TERMINATING:"}

\* result[len("TERMINATING:"):].strip()
after_marker(r) ==
    CASE r = "ok" -> ""
      [] r = "TERMINATING: bye" -> "bye"
      [] r = "TERMINATING:" -> ""
      [] r = "note TERMINATING: x" -> "TING: x"
      [] r = "terminating: y" -> "y"

TaskCompleted == "Task completed successfully"

BAIdle ==
    /\ ba_memory = <<>>
    /\ ba_log = <<>>
    /\ ba_result = "<none>"
    /\ ba_pc = "off"
    /\ ba_max_steps = 0

BAInit ==
    /\ ba_memory = <<>>
    /\ ba_log = <<>>
    /\ ba_result = "<none>"
    /\ ba_pc = "idle"
    /\ ba_max_steps \in 0..MaxStepsBA

\* the roles update_memory is called with; "tool" is not one it accepts
Roles == {"user", "assistant", "system", "tool"}

\* BaseAgent.update_memory(role, content), called before run or by the
\* subclass's think() and act() during run: a user, assistant or system message
\* is appended; another role raises ValueError and leaves the memory as it is
\* (inside think() or act() the error is theirs to handle or to raise)
update_memory(role) ==
    /\ ba_pc \in {"idle", "think", "act"}
    /\ IF role \in {"user", "assistant", "system"}
       THEN /\ Len(ba_memory) < MaxMemoryBA
            /\ ba_memory' = Append(ba_memory, role)
            /\ UNCHANGED ba_log
       ELSE /\ <<"update_memory", "ValueError">> \notin Range(ba_log)
            /\ ba_log' = Append(ba_log, <<"update_memory", "ValueError">>)
            /\ UNCHANGED ba_memory
    /\ UNCHANGED <<ba_result, ba_pc, ba_max_steps>>
    /\ UNCHANGED NotBA

\* run up to the loop: the request and the system prompt go to memory
BARunStart(with_request) ==
    /\ ba_pc = "idle"
    /\ LET m == IF with_request THEN Append(ba_memory, "user") ELSE ba_memory
       IN ba_memory' = IF \E i \in 1..Len(m) : m[i] = "system"
                       THEN m ELSE <<"system">> \o m
    /\ ba_pc' = "think"
    /\ UNCHANGED <<ba_log, ba_result, ba_max_steps>>
    /\ UNCHANGED NotBA

\* the think() calls of ba_log answered true
Iterations == Cardinality({i \in 1..Len(ba_log) : ba_log[i] = <<"think", "true">>})

\* "has_actions = await self.think()": the subclass answers true or false, or raises
BAThink ==
    /\ ba_pc = "think"
    /\ \/ /\ Iterations < MaxItersBA
          /\ ba_log' = Append(ba_log, <<"think", "true">>)
          /\ ba_pc' = "act"
          /\ UNCHANGED ba_result
       \/ /\ ba_log' = Append(ba_log, <<"think", "false">>)
          /\ ba_pc' = "returned"
          /\ ba_result' = TaskCompleted
       \/ /\ ba_log' = Append(ba_log, <<"think", "raised">>)
          /\ ba_pc' = "raised"
          /\ UNCHANGED ba_result
    /\ UNCHANGED <<ba_memory, ba_max_steps>>
    /\ UNCHANGED NotBA

\* "result = await self.act()" and the test of the marker
BAAct ==
    /\ ba_pc = "act"
    /\ \/ \E r \in ActTexts :
            /\ ba_log' = Append(ba_log, <<"act", r>>)
            /\ IF startswith_terminating(r)
               THEN ba_pc' = "returned" /\ ba_result' = after_marker(r)
               ELSE ba_pc' = "think" /\ UNCHANGED ba_result
       \/ /\ ba_log' = Append(ba_log, <<"act", "raised">>)
          /\ ba_pc' = "raised"
          /\ UNCHANGED ba_result
    /\ UNCHANGED <<ba_memory, ba_max_steps>>
    /\ UNCHANGED NotBA

BANext ==
    \/ \E role \in Roles : update_memory(role)
    \/ \E with_request \in BOOLEAN : BARunStart(with_request)
    \/ BAThink
    \/ BAAct

(***************************************************************************)
(* HybridAgent (app/agent/hybrid_agent.py)                                 *)
(***************************************************************************)
SystemMessage(c) == [type |-> "system", content |-> c]

\* the role names a HybridAgent is built with, in the order of execution_agents
HyRoles == {<<"Planner", "Developer", "Critic">>, <<"Developer", "Planner">>,
            <<"Developer", "Critic">>, <<"Developer", "Planner", "Critic">>}
HyRoleNames == {"Planner", "Developer", "Critic"}

\* the text of the initial message of the conversation
HyInitialMessage == "goal, plan and steps"

\* f"Plan: {plan_result}", plan_result being the summary of the planning run
plan_text(plan_result) ==
    CASE plan_result = "summary" -> "Plan: summary"
      [] plan_result = "summary_error" -> "Plan: summary_error"
      [] OTHER -> "Plan: "

\* an await that resumes while planning_agent.run() is still at work
planning_returned_early(pc) == pc \in {"think", "act", "summary", "done"}

\* "plan_result = await self.planning_agent.run()": run has returned
planning_returned(pc) == pc = "done"

\* an opening by the first registered role, whatever its name
first_speaker_registered(names) == names[1]

\* "Planner" if "Planner" in self.execution_agents else next(iter(...))
first_speaker(names) == IF "Planner" \in Range(names) THEN "Planner" ELSE names[1]

HyIdle ==
    /\ hy_goal = ""
    /\ hy_max_steps = 0
    /\ hy_pc = "off"

\* HybridAgent.__init__: the planning agent and one execution agent per role,
\* all of them holding the agent's ConversationState; the goal field may be
\* given to the constructor
HyInit ==
    /\ hy_goal \in {"", "goal"}
    /\ hy_max_steps \in 0..MaxStepsHy
    /\ hy_pc = "idle"
    /\ ga = NewAgent
    /\ ga_tools = <<>>
    /\ ga_max_steps = hy_max_steps
    /\ ga_steps_taken = 0
    /\ ga_calls = 0
    /\ ga_last = [op |-> "init", ret |-> ""]
    /\ ga_run = NoRun
    /\ ga_pc = "planner"
    /\ ga_status = NoStatus
    /\ agents \in HyRoles
    /\ max_turns = 0
    /\ history = <<>>
    /\ current_speaker = ""
    /\ thinking_process = [n \in HyRoleNames |-> <<>>]
    /\ conversation_log = <<>>
    /\ current_agent_name = ""
    /\ turn = 0
    /\ conv_pc = "off"
    /\ agent_run = NoAgentRun

\* HybridAgent.set_goal called before run (once)
HySetGoal ==
    /\ hy_pc = "idle"
    /\ history = <<>>
    /\ hy_goal' = "goal"
    /\ ga' = set_goal(ga, "goal")
    /\ history' = add_message(history, SystemMessage("Goal"))
    /\ UNCHANGED <<hy_max_steps, hy_pc>>
    /\ UNCHANGED <<ga_tools, ga_max_steps, ga_steps_taken, ga_calls, ga_last, ga_run, ga_pc>>
    /\ UNCHANGED <<agents, max_turns, current_speaker, thinking_process,
                   conversation_log, current_agent_name, turn, conv_pc>>
    /\ UNCHANGED NotHy

\* HybridAgent.run up to the first think() of planning_agent.run()
HyRunStart(with_goal) ==
    /\ hy_pc = "idle"
    /\ LET g == IF with_goal THEN "goal" ELSE hy_goal
           a == IF with_goal THEN set_goal(ga, "goal") ELSE ga
           h == IF with_goal THEN add_message(history, SystemMessage("Goal")) ELSE history
       IN IF goal_missing(g)
          THEN /\ hy_pc' = "raised"
               /\ UNCHANGED <<hy_goal, history, gaVars>>
          ELSE /\ hy_goal' = g
               /\ history' = h
               /\ hy_pc' = "planning"
               /\ ga' = a
               /\ ga_pc' = IF goal_missing(a.goal_state) THEN "raised"
                           ELSE IF 0 < ga_max_steps THEN "think" ELSE "summary"
               /\ ga_steps_taken' = 0
               /\ ga_run' = [requested |-> FALSE, failed |-> FALSE]
               /\ ga_last' = [op |-> "run", ret |-> ""]
               /\ UNCHANGED <<ga_tools, ga_max_steps, ga_calls>>
    /\ UNCHANGED hy_max_steps
    /\ UNCHANGED <<agents, max_turns, current_speaker, thinking_process,
                   conversation_log, current_agent_name, turn, conv_pc>>
    /\ UNCHANGED NotHy

\* planning_agent.run() raised: the exception leaves HybridAgent.run
HyPlanRaised ==
    /\ hy_pc = "planning"
    /\ ga_pc = "raised"
    /\ hy_pc' = "raised"
    /\ UNCHANGED <<hy_goal, hy_max_steps, gaVars, convVars>>
    /\ UNCHANGED NotHy

\* planning_agent.run() returned: the plan and the initial message go to the
\* conversation, the log is opened and the first speaker chosen
HyPlanDone ==
    /\ hy_pc = "planning"
    /\ planning_returned(ga_pc)
    /\ history' = add_message(add_message(history, SystemMessage(plan_text(ga_last.ret))),
                              HumanMessage(HyInitialMessage))
    /\ conversation_log' = <<<<"system", HyInitialMessage>>>>
    /\ current_agent_name' = first_speaker(agents)
    /\ hy_pc' = IF more_turns(0, hy_max_steps) THEN "think" ELSE "summary"
    /\ UNCHANGED <<hy_goal, hy_max_steps, gaVars>>
    /\ UNCHANGED <<agents, max_turns, current_speaker, thinking_process, turn, conv_pc>>
    /\ UNCHANGED NotHy

\* "await current_agent.think()" in the conversation loop
HyTurnThink ==
    /\ hy_pc = "think"
    /\ \/ \E t \in Thoughts :
            /\ thinking_process' = add_thinking(thinking_process, current_agent_name, t)
            /\ hy_pc' = "respond"
       \/ /\ hy_pc' = "raised"
          /\ UNCHANGED thinking_process
    /\ UNCHANGED <<hy_goal, hy_max_steps, gaVars>>
    /\ UNCHANGED <<agents, max_turns, history, current_speaker,
                   conversation_log, current_agent_name, turn, conv_pc>>
    /\ UNCHANGED NotHy

\* "response = await current_agent.respond()" and the rest of the iteration
HyTurnRespond ==
    /\ hy_pc = "respond"
    /\ \/ \E r \in Responses :
            /\ history' = notify_others(respond_history(history, r), agents, 1,
                                        r, current_agent_name)
            /\ current_speaker' = current_agent_name
            /\ conversation_log' = Append(conversation_log, <<current_agent_name, r>>)
            /\ current_agent_name' = next_agent(agents, current_agent_name)
            /\ turn' = turn + 1
            /\ hy_pc' = IF more_turns(turn + 1, hy_max_steps) THEN "think" ELSE "summary"
       \/ /\ hy_pc' = "raised"
          /\ UNCHANGED <<history, current_speaker, conversation_log,
                         current_agent_name, turn>>
    /\ UNCHANGED <<hy_goal, hy_max_steps, gaVars>>
    /\ UNCHANGED <<agents, max_turns, thinking_process, conv_pc>>
    /\ UNCHANGED NotHy

\* "summary = await self._generate_summary(conversation_log)": the collaborator
\* answers, or raises and the exception leaves run
HySummary ==
    /\ hy_pc = "summary"
    /\ hy_pc' \in {"done", "raised"}
    /\ UNCHANGED <<hy_goal, hy_max_steps, gaVars, convVars>>
    /\ UNCHANGED NotHy

\* the steps of planning_agent.run() are those of GenericAgent.run
HyNext ==
    \/ HySetGoal
    \/ \E with_goal \in BOOLEAN : HyRunStart(with_goal)
    \/ hy_pc = "planning" /\ GARunThink
    \/ hy_pc = "planning" /\ GARunAct
    \/ hy_pc = "planning" /\ GARunSummary
    \/ HyPlanRaised
    \/ HyPlanDone
    \/ HyTurnThink
    \/ HyTurnRespond
    \/ HySummary

(***************************************************************************)
(* Specifications: one per component, the others idle                      *)
(***************************************************************************)
InitTC == TCInit /\ ConvIdle /\ GAIdle /\ EDIdle /\ BAIdle /\ HyIdle

SpecTC == InitTC /\ [][TCNext]_vars

InitConv == ConvInit /\ TCIdle /\ GAIdle /\ EDIdle /\ BAIdle /\ HyIdle

SpecConv == InitConv /\ [][ConvNext]_vars

InitGA == GAInit /\ ConvIdle /\ TCIdle /\ EDIdle /\ BAIdle /\ HyIdle

SpecGA == InitGA /\ [][GANext]_vars

InitED == EDInit /\ ConvIdle /\ TCIdle /\ GAIdle /\ BAIdle /\ HyIdle

SpecED == InitED /\ [][EDNext]_vars

InitBA == BAInit /\ ConvIdle /\ TCIdle /\ GAIdle /\ EDIdle /\ HyIdle

SpecBA == InitBA /\ [][BANext]_vars

\* the app agent and a caller that asks for its status: a first time at any
\* point of the agent's life, the awaits of act() included, after which the
\* agent goes on, and again at any later point
NextStatus ==
    \/ ga_status.calls <= 1 /\ GASetGoal
    \/ ga_status.calls <= 1 /\ RecordBackwardStep
    \/ ga_status.calls <= 1 /\ \E with_request \in BOOLEAN : GARunStart(with_request)
    \/ ga_status.calls <= 1 /\ GARunThink
    \/ ga_status.calls <= 1 /\ GARunAct
    \/ ga_status.calls <= 1 /\ GARunActResume
    \/ ga_status.calls <= 1 /\ GARunSummary
    \/ GAStatusCall

SpecStatus == InitGA /\ [][NextStatus]_vars

InitHy == HyInit /\ TCIdle /\ EDIdle /\ BAIdle

SpecHy == InitHy /\ [][HyNext]_vars

\* the two orchestrators of a multi-agent conversation
InitTalk == InitConv \/ InitHy

NextTalk == ConvNext \/ HyNext

SpecTalk == InitTalk /\ [][NextTalk]_vars

\* the two agents that need a goal to run
InitGoal == InitGA \/ InitHy

NextGoal == GANext \/ HyNext

SpecGoal == InitGoal /\ [][NextGoal]_vars

\* both Working-Backwards agents: the app agent or the enhanced_devin agent
InitPlanning == InitGA \/ InitED

NextPlanning == GANext \/ EDNext

SpecPlanning == InitPlanning /\ [][NextPlanning]_vars

\* the two agents of app whose act() runs tools: a ToolCallAgent or a GenericAgent
InitActing == InitTC \/ InitGA

NextActing == TCNext \/ GANext

SpecActing == InitActing /\ [][NextActing]_vars

(***************************************************************************)
(* Properties of MultiAgentConversation                                    *)
(***************************************************************************)
ConvStarted == conv_pc \in {"think", "respond", "done", "raised"}

\* C1: with participants registered in the order p0..p(N-1), N >= 1, the
\* speaker of the k-th turn (k = 0, 1, ...) is p(k mod N), whatever the agents
\* say: entry k+2 of the conversation log (entry 1 is the human message) is
\* spoken by agents[(k mod N) + 1].
C1_RoundRobin ==
    (ConvStarted /\ Len(agents) >= 1) =>
        /\ Len(conversation_log) = turn + 1
        /\ \A k \in 0..(turn - 1) :
              conversation_log[k + 2][1] = agents[(k % Len(agents)) + 1]

\* three participants A, B, C have completed four turns
C1_Witness ==
    /\ conv_pc = "done"
    /\ agents = <<"A", "B", "C">>
    /\ turn = 4
    /\ [i \in 1..4 |-> conversation_log[i + 1][1]]
         = <<"A", "B", "C", "A">>

\* C2: with N >= 2 participants sharing one ConversationState, each turn adds
\* exactly one message to the shared history, so after k completed turns the
\* history holds the initial message plus exactly k agent messages (and what
\* the runs called on participants outside start_conversation recorded).
C2_OneMessagePerTurn ==
    (ConvStarted /\ Len(agents) >= 2) => Len(history) = 1 + turn + agent_run.messages

(***************************************************************************)
(* Properties of ToolCollection and ToolCallAgent                          *)
(***************************************************************************)
\* the positions of the tools of ts whose name equals name ignoring letter case
Matching(name, ts) == {i \in 1..Len(ts) : lower(ts[i].name) = lower(name)}

Max(S) == CHOOSE x \in S : \A y \in S : x >= y

\* C8: get_tool(name) returns the most recently added tool whose name equals
\* name ignoring letter case (last registered wins), and None when no added
\* tool's name matches.
C8_LastRegisteredWins ==
    [][(lookup' # lookup /\ lookup'.name # "") =>
         IF Matching(lookup'.name, tools) = {}
         THEN lookup'.tool = None
         ELSE lookup'.tool = tools[Max(Matching(lookup'.name, tools))]]_vars

\* the invocations made for ToolCall c
InvocationsOf(c) == {i \in 1..Len(invocations) : invocations[i].call = c.id}

\* C9: act() for a pending ToolCall that names a registered tool invokes that
\* tool exactly once with the ToolCall's arguments and returns the tool's text
\* unchanged; the ToolCall leaves the pending queue and no later act() invokes
\* it again.
C9_DispatchExact ==
    (/\ last_act.call # None
     /\ last_act.call.tool_name \notin special_tool_names
     /\ get_tool(tools, last_act.call.tool_name) # None) =>
        /\ Cardinality(InvocationsOf(last_act.call)) = 1
        /\ \A i \in InvocationsOf(last_act.call) :
              /\ invocations[i].tool = get_tool(tools, last_act.call.tool_name).id
              /\ invocations[i].args = last_act.call.tool_args
              /\ invocations[i].returned # "raised"
                    => last_act.result = ToolText(invocations[i].returned)
        /\ \A j \in 1..Len(tool_calls) : tool_calls[j].id # last_act.call.id

\* C10: act() for a pending ToolCall, other than terminate, whose tool_name
\* matches no registered tool (the registry may be empty), whatever that name
\* is, returns an error string containing "not found" and does not raise; run()
\* records the result, counts the step and goes back to the head of its loop:
\* the next think()
\* follows whenever max_steps allows another iteration, and otherwise run()
\* returns the "Reached maximum steps" result carrying that error.
C10_NotFoundContinues ==
    [][(/\ tc_pc = "act"
        /\ tool_calls # <<>>
        /\ Head(tool_calls).tool_name \notin special_tool_names
        /\ get_tool(tools, Head(tool_calls).tool_name) = None) =>
           /\ ContainsNotFound(last_act'.result)
           /\ last_act'.call = Head(tool_calls)
           /\ invocations' = invocations
           /\ tc_messages' = Append(tc_messages, [role |-> "system", content |-> last_act'.result])
           /\ steps_taken' = steps_taken + 1
           /\ IF steps_taken' < tc_max_steps
              THEN tc_pc' = "think"
              ELSE tc_pc' = "done" /\ tc_result' = Exhausted(last_act'.result)]_vars

(***************************************************************************)
(* Properties of the Working-Backwards agents                              *)
(***************************************************************************)
\* f has the length of b and its i-th element is the i-th of b from the end
IsReverseOf(f, b) ==
    /\ Len(f) = Len(b)
    /\ \A i \in 1..Len(b) : f[i] = b[Len(b) + 1 - i]

\* C3: whenever planning produces a forward plan (_organize_plan in app, plan
\* in enhanced_devin) from a backward-step sequence B of length N, the forward
\* plan has length N and its i-th step (from 0) is the (N-1-i)-th step of B:
\* no step is dropped, duplicated or reordered otherwise.
C3_ForwardPlanIsReversed ==
    [][/\ (~ga.plan_ready /\ ga'.plan_ready)
            => IsReverseOf(ga'.forward_plan, ga.backwards_steps)
       /\ (ed_pc = "idle" /\ ed_pc' = "loop")
            => IsReverseOf(current_plan', planned_backwards')]_vars

\* the app agent organized a plan from two backward steps
C3_Witness ==
    /\ ga.plan_ready
    /\ ga.backwards_steps = <<1, 2>>
    /\ ga.forward_plan = <<2, 1>>

\* C4: in run() of the app agent with a goal set, a collaborator that always
\* answers and max_steps large enough, the agent records a non-empty backward
\* chain, sets plan_ready with forward_plan the reverse of backwards_steps, and
\* act() executes the steps until think() reports the plan finished; stated on
\* the state in which run() has returned, for the largest step budget.
C4_RunBuildsAndExecutesPlan ==
    (/\ ga_pc = "done"
     /\ ~ga_run.failed
     /\ ga_max_steps = MaxStepsGA) =>
        /\ ga.backwards_steps # <<>>
        /\ ga.plan_ready
        /\ IsReverseOf(ga.forward_plan, ga.backwards_steps)
        /\ ga.current_step_index = Len(ga.forward_plan)

\* C7: across think() and act() calls of the app agent, current_step_index
\* never decreases, and it always satisfies
\* 0 <= current_step_index <= len(forward_plan).
C7_MonotonicCursor ==
    [][/\ ga_last'.op \in {"think", "act"}
            => ga'.current_step_index >= ga.current_step_index
       /\ 0 <= ga.current_step_index
       /\ ga.current_step_index <= Len(ga.forward_plan)
       /\ 0 <= ga'.current_step_index
       /\ ga'.current_step_index <= Len(ga'.forward_plan)]_vars

\* act() has been called with the cursor on the last step of a two-step plan
\* and moved it to the end
C7_Witness ==
    /\ ga_last.op = "act"
    /\ Len(ga.forward_plan) = 2
    /\ ga.current_step_index = 2

\* the k-th step handed to execute_step failed
FailedAt(k) == k \in 1..Len(steps_history) /\ steps_history[k].result.status = "failed"

\* C5 as amended: if the k-th step of the forward plan fails (recovery fails),
\* the run has status FAILED and no step after the k-th is executed; the k-1
\* preceding steps are recorded as successes, and the failed step is recorded
\* too: steps_history and step_count have k entries, and execution_results has
\* the k-1 successes followed by the failed result when execute_step returned
\* it, or only the k-1 successes when execute_step raised.
C5_FailureHaltsPlan ==
    \A k \in 1..ChainLen :
        FailedAt(k) =>
            /\ status = "failed"
            /\ Len(executed) = k
            /\ \A j \in 1..k : executed[j] = current_plan[j].id
            /\ step_count = k
            /\ Len(steps_history) = k
            /\ \A j \in 1..(k - 1) :
                  /\ steps_history[j].result.status = "success"
                  /\ execution_results[j] = steps_history[j].result
            /\ IF steps_history[k].result.kind = "exception"
               THEN Len(execution_results) = k - 1
               ELSE /\ Len(execution_results) = k
                    /\ execution_results[k] = steps_history[k].result

\* C5 as stated: if the k-th step fails and recovery fails, the run has status
\* FAILED, no step after the k-th is executed, and the recorded results are
\* exactly those of the k-1 steps that preceded it.
C5_OnlyPrecedingRecorded ==
    \A k \in 1..ChainLen :
        FailedAt(k) =>
            /\ status = "failed"
            /\ Len(executed) = k
            /\ Len(execution_results) = k - 1
            /\ \A j \in 1..Len(execution_results) : execution_results[j].status = "success"

\* run() has returned after step 4 of the plan failed: three successes and
\* the failure are in execution_results
C5_Witness ==
    /\ ed_pc = "returned"
    /\ status = "failed"
    /\ FailedAt(4)
    /\ executed = <<1, 2, 3, 4>>
    /\ Len(execution_results) = 4
    /\ execution_results[4].status = "failed"

\* C6: when every step of the N-step forward plan succeeds and N <= max_steps,
\* each step is executed exactly once in forward-plan order, N results are
\* recorded, and the run ends with status COMPLETED.
C6_AllStepsSucceed ==
    (/\ ed_pc = "returned"
     /\ Len(current_plan) <= ed_max_steps
     /\ \A k \in 1..Len(steps_history) : steps_history[k].result.status = "success") =>
        /\ executed = [i \in 1..Len(current_plan) |-> current_plan[i].id]
        /\ \A i \in 1..Len(current_plan) : steps_history[i].step = current_plan[i]
        /\ Len(steps_history) = Len(current_plan)
        /\ Len(execution_results) = Len(current_plan)
        /\ step_count = Len(current_plan)
        /\ status = "completed"

\* run() has returned COMPLETED after five steps, the last two run by tools
C6_Witness ==
    /\ ed_pc = "returned"
    /\ status = "completed"
    /\ ed_max_steps = ChainLen
    /\ executed = <<1, 2, 3, 4, 5>>
    /\ Len(execution_results) = 5
    /\ execution_results[4].kind = "tool"
    /\ execution_results[5].kind = "tool"

(***************************************************************************)
(* Error handling of act() and run()                                       *)
(***************************************************************************)
\* C11: when the tool invoked by act() raises (ToolCallAgent.act, or
\* GenericAgent.act in app), act() does not raise: it returns a textual error,
\* and the enclosing run loop counts the step and goes on to the next think()
\* (or leaves the loop at the step cap) instead of aborting.
C11_ToolFailureContinues ==
    [][/\ (/\ tc_pc \in {"act", "in_tool"}
           /\ tc_pc' \notin {"act", "in_tool"}
           /\ last_act'.result.kind = "exec_error") =>
             /\ steps_taken' = steps_taken + 1
             /\ IF steps_taken' < tc_max_steps
                THEN tc_pc' = "think"
                ELSE tc_pc' = "done" /\ tc_result' = Exhausted(last_act'.result)
       /\ (/\ ga_pc \in {"act", "in_tool"}
           /\ ga_pc' \notin {"act", "in_tool"}
           /\ ga_last'.ret = "tool_error") =>
             /\ ga_steps_taken' = ga_steps_taken + 1
             /\ ga_pc' = IF ga_steps_taken' < ga_max_steps THEN "think" ELSE "summary"]_vars

\* C12: backward chaining stops as soon as the collaborator's answer contains
\* the "initial state reached" marker: when the marker is in its n-th answer,
\* below the cap, exactly n backward steps are recorded and no further one is
\* produced.
C12_MarkerStopsChaining ==
    (ed_pc # "idle" /\ ed_pc # "off" /\ marker_at \in 1..ChainLen) =>
        Len(planned_backwards) = marker_at

(***************************************************************************)
(* Termination and privacy of the conversation                             *)
(***************************************************************************)
\* the number of thoughts recorded for the agents of S
RECURSIVE ThoughtCount(_)
ThoughtCount(S) ==
    IF S = {} THEN 0
    ELSE LET a == CHOOSE x \in S : TRUE
         IN Len(thinking_process[a]) + ThoughtCount(S \ {a})

\* C13: start_conversation ends after exactly max_turns turns, one think and
\* one respond each, whatever the agents say: never more than max_turns turns,
\* no exit before the last one, and the returned log has max_turns + 1
\* entries, the first being the initial human message (the thoughts recorded
\* are those of the turns and of the runs called on participants outside
\* start_conversation).
C13_ExactlyMaxTurns ==
    /\ ConvStarted => turn <= max_turns
    /\ (conv_pc = "done" /\ agents # <<>>) =>
          /\ turn = max_turns
          /\ ThoughtCount(DOMAIN thinking_process) = max_turns + agent_run.thoughts
          /\ Len(conversation_log) = max_turns + 1
          /\ conversation_log[1] = <<"human", InitialMessage>>
          /\ \A k \in 2..Len(conversation_log) : conversation_log[k][1] \in Range(agents)

\* two participants have finished a conversation of three turns
C13_Witness ==
    /\ conv_pc = "done"
    /\ Len(agents) = 2
    /\ max_turns = 3
    /\ Len(conversation_log) = 4

(***************************************************************************)
(* Properties of BaseAgent.run                                             *)
(***************************************************************************)
\* C14: when act() returns a result that begins with "TERMINATING:", the loop
\* of BaseAgent.run exits at once, with no further think() or act(), and run
\* returns the text after the marker (stripped) as its normal result; any other
\* result sends the loop back to think().
C14_TerminateMarker ==
    [][(ba_pc = "act" /\ Len(ba_log') = Len(ba_log) + 1
                      /\ ba_log'[Len(ba_log')][1] = "act"
                      /\ ba_log'[Len(ba_log')][2] # "raised") =>
          LET r == ba_log'[Len(ba_log')][2]
          IN IF r \in {"TERMINATING: bye", "TERMINATING:"}
             THEN /\ ba_pc' = "returned"
                  /\ ba_result' = (IF r = "TERMINATING: bye" THEN "bye" ELSE "")
             ELSE /\ ba_pc' = "think"
                  /\ ba_result' = ba_result]_vars

\* run has returned "bye" after a second act() answered "TERMINATING: bye"
C14_Witness ==
    /\ ba_pc = "returned"
    /\ ba_result = "bye"
    /\ Len(ba_log) = 4
    /\ ba_log[4] = <<"act", "TERMINATING: bye">>

(***************************************************************************)
(* Properties of ToolCallAgent.run                                         *)
(***************************************************************************)
\* C15: ToolCallAgent.run returns "Reached maximum steps (..). Last result: .."
\* exactly when max_steps iterations were completed; a run that ends because
\* think() answered false, or because act() gave a termination result (even in
\* the last allowed iteration), returns the plain last result.
C15_ExhaustedExactly ==
    [][(tc_pc # "done" /\ tc_pc' = "done") =>
          /\ steps_taken' <= tc_max_steps
          /\ (tc_result'.kind = "max_steps") <=> (steps_taken' = tc_max_steps)
          /\ (tc_pc = "think") =>
                 tc_result'.kind # "max_steps" /\ steps_taken' < tc_max_steps
          /\ (tc_pc \in {"act", "in_tool"} /\ ContainsTerminated(last_act'.result)) =>
                 tc_result' = last_act'.result /\ steps_taken' < tc_max_steps
          /\ (tc_pc \in {"act", "in_tool"} /\ ~ContainsTerminated(last_act'.result)) =>
                 tc_result' = Exhausted(last_act'.result)]_vars

\* two iterations of two were completed and the run reports exhaustion
C15_Witness ==
    /\ tc_pc = "done"
    /\ tc_max_steps = 2
    /\ steps_taken = 2
    /\ last_act.n = 2
    /\ tc_result = Exhausted(last_act.result)

(***************************************************************************)
(* Properties of the app GenericAgent's think and run                      *)
(***************************************************************************)
\* the last message of agent a
LastMessage(a) == a.messages[Len(a.messages)]

\* C16: when the collaborator call inside GenericAgent.think fails, a system
\* message recording the error is appended after the prompt, nothing else of
\* the agent changes, think() answers false without raising, and run makes no
\* act() in that iteration but leaves the loop for the summary.
C16_ThinkFailureStopsRun ==
    [][(ga_pc = "think" /\ ga' # ga
          /\ LastMessage(ga') = [role |-> "system", content |-> Note("error_thinking")]) =>
          /\ ga'.messages = ga.messages
                              \o <<[role |-> "user", content |-> Note("next_step_prompt")],
                                   [role |-> "system", content |-> Note("error_thinking")]>>
          /\ ga' = [ga EXCEPT !.messages = ga'.messages]
          /\ ga_last' = [op |-> "think", ret |-> "false"]
          /\ ga_pc' = "summary"
          /\ ga_steps_taken' = ga_steps_taken]_vars

\* the second think() of a run failed, after one completed iteration
C16_Witness ==
    /\ ga_pc = "summary"
    /\ ga_steps_taken = 1
    /\ ga_last = [op |-> "think", ret |-> "false"]
    /\ LastMessage(ga) = [role |-> "system", content |-> Note("error_thinking")]

(***************************************************************************)
(* Properties of LangChainAgent.think                                      *)
(***************************************************************************)
\* C20: a participant's think(), in a turn of start_conversation or in its own
\* run, appends its thought only to thinking_process[its own name]; the shared
\* history, current_speaker and the thinking_process entry of every other
\* participant are left as they were.
C20_ThoughtsArePrivate ==
    [][/\ (conv_pc = "think" /\ conv_pc' # "think") =>
          /\ history' = history
          /\ current_speaker' = current_speaker
          /\ conversation_log' = conversation_log
          /\ \A n \in DOMAIN thinking_process :
                n # current_agent_name => thinking_process'[n] = thinking_process[n]
          /\ DOMAIN thinking_process' = DOMAIN thinking_process
          /\ IF conv_pc' = "respond"
             THEN /\ Len(thinking_process'[current_agent_name])
                        = Len(thinking_process[current_agent_name]) + 1
                  /\ SubSeq(thinking_process'[current_agent_name], 1,
                            Len(thinking_process[current_agent_name]))
                        = thinking_process[current_agent_name]
             ELSE thinking_process' = thinking_process
       /\ (agent_run.pc = "think" /\ agent_run'.pc # "think") =>
          /\ history' = history
          /\ current_speaker' = current_speaker
          /\ conversation_log' = conversation_log
          /\ \A n \in DOMAIN thinking_process :
                n # agent_run.agent => thinking_process'[n] = thinking_process[n]
          /\ DOMAIN thinking_process' = DOMAIN thinking_process
          /\ IF agent_run'.pc = "respond"
             THEN /\ Len(thinking_process'[agent_run.agent])
                        = Len(thinking_process[agent_run.agent]) + 1
                  /\ SubSeq(thinking_process'[agent_run.agent], 1,
                            Len(thinking_process[agent_run.agent]))
                        = thinking_process[agent_run.agent]
             ELSE thinking_process' = thinking_process]_vars

\* the second speaker has thought in its turn, after the first one thought and
\* answered; the third participant has no thought recorded
C20_Witness ==
    /\ conv_pc = "respond"
    /\ agents = <<"A", "B", "C">>
    /\ current_agent_name = "B"
    /\ turn = 1
    /\ Len(thinking_process["A"]) = 1
    /\ Len(thinking_process["B"]) = 1
    /\ thinking_process["C"] = <<>>

(***************************************************************************)
(* Properties of HybridAgent.run and of the goal test of both run methods  *)
(***************************************************************************)
\* C17: GenericAgent.run and HybridAgent.run, called without a request while no
\* goal is set, raise ValueError before any think, act, planning or collaborator
\* call: the messages and the plan state of the agent and the conversation are
\* what they were, and nothing happens after the exception.
C17_NoGoalRaisesFirst ==
    /\ [][(ga_pc = "idle" /\ ga_pc' \notin {"idle", "call_in_tool"} /\ ~ga_run'.requested
                          /\ ga.goal_state = "") =>
             /\ ga_pc' = "raised"
             /\ ga' = ga
             /\ ga_last'.op = "run"
             /\ ga_steps_taken' = 0]_vars
    /\ [][(hy_pc = "idle" /\ hy_pc' # "idle" /\ hy_goal = "" /\ hy_goal' = "") =>
             /\ hy_pc' = "raised"
             /\ UNCHANGED <<gaVars, convVars>>]_vars
    /\ [][(ga_pc = "raised" => UNCHANGED gaVars)
          /\ (hy_pc = "raised" => UNCHANGED <<gaVars, convVars, hyVars>>)]_vars

\* HybridAgent.run has raised for want of a goal: the planning agent was never
\* started and the conversation is empty
C17_Witness ==
    /\ hy_pc = "raised"
    /\ hy_goal = ""
    /\ ga_pc = "planner"
    /\ ga = NewAgent
    /\ history = <<>>
    /\ conversation_log = <<>>

\* the conversation phase of HybridAgent.run has begun
HyConversing ==
    \/ hy_pc \in {"think", "respond", "summary", "done"}
    \/ turn > 0
    \/ conversation_log # <<>>
    \/ \E n \in DOMAIN thinking_process : thinking_process[n] # <<>>

\* C19: HybridAgent.run runs its phases in sequence: planning_agent.run() has
\* returned before the first think/respond of a participant, the plan text is in
\* the shared conversation before any participant's message, and the planning
\* agent is not stepped once the conversation has begun.
C19_PlanningThenConversation ==
    /\ [](HyConversing =>
            /\ ga_pc = "done"
            /\ \E i \in 1..Len(history) :
                 /\ history[i] = SystemMessage(plan_text(ga_last.ret))
                 /\ \A j \in 1..i : history[j].type # "ai")
    /\ [][HyConversing => UNCHANGED gaVars]_vars

\* the first participant has thought, after a planning run of one full iteration
C19_Witness ==
    /\ hy_pc = "respond"
    /\ turn = 0
    /\ ga_pc = "done"
    /\ ga_steps_taken = 1
    /\ thinking_process[current_agent_name] # <<>>

(***************************************************************************)
(* Properties of GenericAgent.get_execution_status (app)                   *)
(***************************************************************************)
\* the step is a call of get_execution_status
StatusStep == ga_status'.calls = ga_status.calls + 1

C21_RunBoundedByMaxSteps ==
    ba_pc # "off" => Iterations <= ba_max_steps

\* C22: the status text reports three disjoint parts of the forward plan:
\* completed = the steps before current_step_index, in progress = the one step
\* at current_step_index, pending = the steps after current_step_index; no step
\* is reported twice.
C22_DisjointBuckets ==
    (ga_status.calls > 0 /\ ga_status.of.plan_ready) =>
        LET a == ga_status.of
            t == ga_status.text
            n == Len(a.forward_plan)
            i == a.current_step_index
        IN /\ [k \in 1..Len(t.completed_steps) |-> t.completed_steps[k][1]]
                 = SubSeq(a.forward_plan, 1, i)
           /\ t.current_step = IF i < n THEN <<i + 1, n, a.forward_plan[i + 1]>> ELSE <<>>
           /\ t.pending_steps = SubSeq(a.forward_plan, i + 2, n)

(***************************************************************************)
(* Properties of GenericAgent.run of enhanced_devin, continued             *)
(***************************************************************************)
\* the step the loop of run is about to execute names a tool that is not among
\* available_tools
MissingToolNext ==
    /\ ed_pc = "loop"
    /\ ed_pos < Len(current_plan)
    /\ ~cap_reached(step_count, ed_max_steps)
    /\ current_plan[ed_pos + 1].tool # "none"
    /\ get_tool_by_name(available_tools, 1, current_plan[ed_pos + 1].tool) = 0

NotFoundResult == [status |-> "failed", kind |-> "not_found", tool |-> "none"]

\* C23: a plan step that names a tool absent from available_tools gives an
\* error result, not an exception, and the run goes on with the next step of
\* the plan.
C23_MissingToolContinues ==
    [][MissingToolNext =>
          /\ execution_results' = Append(execution_results, NotFoundResult)
          /\ status' = "executing"
          /\ ed_pc' = "loop"
          /\ ed_pos' = ed_pos + 1]_vars

\* the loop of run meets the cap with a step of the plan still to execute
CapMetNext ==
    /\ ed_pc = "loop"
    /\ ed_pos < Len(current_plan)
    /\ cap_reached(step_count, ed_max_steps)

\* the run has returned with every executed step a success and steps of the
\* plan left over: it was ended by the cap
EndedByCap ==
    /\ ed_pc = "returned"
    /\ Len(steps_history) < Len(current_plan)
    /\ \A i \in 1..Len(steps_history) : steps_history[i].result.status = "success"

\* C24 (as the code has it): reaching max_steps before the plan is finished is
\* an error: an "exceeded maximum number of steps" entry is recorded, the run
\* ends FAILED, no further step is executed, and the results of the steps
\* already executed are kept for the report.
C24_CapIsFailure ==
    /\ [][CapMetNext =>
            /\ errors' = Append(errors, [error |-> "exceeded_max_steps", step |-> 0])
            /\ status' = "failed"
            /\ ed_pc' = "after_loop"
            /\ UNCHANGED <<execution_results, steps_history, step_count, executed>>]_vars
    /\ [](EndedByCap =>
            /\ status = "failed"
            /\ errors = <<[error |-> "exceeded_max_steps", step |-> 0]>>
            /\ step_count = ed_max_steps
            /\ Len(execution_results) = ed_max_steps)

\* C24 (as stated): a run ended by the cap has a terminal status other than
\* FAILED and no error entry.
C24_CapIsNotAnError ==
    EndedByCap => status # "failed" /\ errors = <<>>

\* a run of max_steps = 3 over a plan of five steps ended by the cap
C24_Witness ==
    /\ EndedByCap
    /\ ed_max_steps = 3
    /\ Len(execution_results) = 3
    /\ Len(current_plan) = 5
    /\ status = "failed"

(***************************************************************************)
(* Properties of the two conversation loops                                *)
(***************************************************************************)
\* C25: a failure of the collaborator during a participant's think() or
\* respond() in start_conversation, or during the conversation and the summary
\* of HybridAgent.run, does not leave the orchestrator as an exception.
C25_CollaboratorFailureContained ==
    [][/\ conv_pc \in {"think", "respond"} => conv_pc' # "raised"
       /\ hy_pc \in {"think", "respond", "summary"} => hy_pc' # "raised"]_vars

(***************************************************************************)
(* Properties of GenericAgent.act (app)                                    *)
(***************************************************************************)
\* this step is the return of a call of act(), made by run or by a caller: the
\* whole call when no tool was entered, otherwise the part of it that follows
\* the await of the tool
ActStep ==
    /\ ga_last'.op = "act"
    /\ \/ ga_pc = "act" /\ ga_pc' # "in_tool"
       \/ ga_pc = "in_tool" /\ ga_pc' # "in_tool"
       \/ ga_pc = "call_in_tool" /\ ga_pc' = "idle"
       \/ ga_pc = "idle" /\ ga_pc' = "idle" /\ ga_calls' = ga_calls + 1

\* C26 (as the code has it): act() appends exactly one message recording the
\* result when a tool was executed, a tool failed, the collaborator executed a
\* plan step or the collaborator failed; when there is nothing to do it returns
\* "No action taken." and appends nothing, and a call that raises appends
\* nothing either.
C26_ActRecordsUnlessIdle ==
    [][ActStep =>
          IF ga_last'.ret \in {"tool_text", "tool_error", "step_error", "step_text"}
          THEN /\ Len(ga'.messages) = Len(ga.messages) + 1
               /\ SubSeq(ga'.messages, 1, Len(ga.messages)) = ga.messages
               /\ LastMessage(ga').role \in {"system", "assistant"}
          ELSE /\ ga_last'.ret \in {"no_action", "raised"}
               /\ ga' = ga]_vars

\* C26 (as stated): every call of act() that returns has appended at least one
\* message.
C26_ActAlwaysRecords ==
    [][(ActStep /\ ga_last'.ret # "raised") =>
          Len(ga'.messages) >= Len(ga.messages) + 1]_vars

\* run has made an act() with nothing to do, after a think() that asked for no
\* tool while no plan was ready
C26_Witness ==
    /\ ga_last = [op |-> "act", ret |-> "no_action"]
    /\ ga_run.requested
    /\ ga_steps_taken = 1
    /\ ~ga.plan_ready
    /\ LastMessage(ga).role = "assistant"

\* C27: act() moves current_step_index, by exactly one, only in a call that
\* records a result on forward_plan[current_step_index] and appends that step
\* to completed_steps (a tool or the collaborator succeeded while a step of a
\* ready plan was pending); in every other call current_step_index,
\* completed_steps and the recorded results are unchanged.
C27_CursorMovesWithResult ==
    [][ActStep =>
          LET i == ga.current_step_index
              pending == ga.plan_ready /\ i < Len(ga.forward_plan)
          IN IF pending /\ ga_last'.ret \in {"tool_text", "step_text"}
             THEN /\ ga'.current_step_index = i + 1
                  /\ ga'.completed_steps = Append(ga.completed_steps, ga.forward_plan[i + 1])
                  /\ ga'.step_result[ga.forward_plan[i + 1]] # "none"
                  /\ ga'.forward_plan = ga.forward_plan
             ELSE /\ ga'.current_step_index = i
                  /\ ga'.completed_steps = ga.completed_steps
                  /\ ga'.step_result = ga.step_result
                  /\ ga'.forward_plan = ga.forward_plan]_vars

\* the first step of a plan of two was executed through a tool, and the act()
\* for the second step failed: the cursor stays at 1
C27_Witness ==
    /\ ga.plan_ready
    /\ Len(ga.forward_plan) = 2
    /\ ga.current_step_index = 1
    /\ Len(ga.completed_steps) = 1
    /\ ga_last.op = "act"
    /\ ga_last.ret \in {"tool_error", "step_error"}

\* the steps of steps_history whose result is a failure, in order
RECURSIVE FailedSteps(_)
FailedSteps(h) ==
    IF h = <<>> THEN <<>>
    ELSE LET rest == FailedSteps(SubSeq(h, 1, Len(h) - 1))
             last == h[Len(h)]
         IN IF last.result.status = "failed" THEN Append(rest, last.step.id) ELSE rest

\* C28: for each failed step of GenericAgent.run (enhanced_devin) recovery is
\* attempted exactly once, in the same iteration as the failure, and the failed
\* step is not executed a second time: no step is executed twice.
C28_OneRecoveryNoRetry ==
    /\ [](ed_pc \notin {"off", "idle"} =>
            /\ recoveries = FailedSteps(steps_history)
            /\ \A i, j \in 1..Len(executed) : i # j => executed[i] # executed[j]
            /\ \A i, j \in 1..Len(recoveries) : i # j => recoveries[i] # recoveries[j]
            /\ Len(executed) = step_count + (IF ed_pc = "in_tool" THEN 1 ELSE 0))
    /\ [][(ed_pc \in {"loop", "in_tool"} /\ Len(steps_history') = Len(steps_history) + 1
             /\ steps_history'[Len(steps_history')].result.status = "failed") =>
            /\ recoveries' = Append(recoveries, current_plan[ed_pos + 1].id)
            /\ ed_pc' # "loop"]_vars

\* the fourth step failed through its tool: one recovery, for that step, and four
\* steps executed once each
C28_Witness ==
    /\ ed_pc = "returned"
    /\ executed = <<1, 2, 3, 4>>
    /\ recoveries = <<4>>
    /\ steps_history[4].result.kind = "tool_error"
    /\ status = "failed"

\* C29: in every state of the app GenericAgent, completed_steps is exactly the
\* first current_step_index steps of forward_plan, in order, and while
\* plan_ready is false forward_plan and completed_steps are empty and
\* current_step_index is 0.
C29_CompletedIsPlanPrefix ==
    ga_pc # "off" =>
        /\ ga.current_step_index \in 0..Len(ga.forward_plan)
        /\ ga.completed_steps = SubSeq(ga.forward_plan, 1, ga.current_step_index)
        /\ Len(ga.completed_steps) = ga.current_step_index
        /\ ~ga.plan_ready =>
              /\ ga.forward_plan = <<>>
              /\ ga.completed_steps = <<>>
              /\ ga.current_step_index = 0

\* a caller's act() has completed the first step of a plan of two
C29_Witness ==
    /\ ga_pc = "idle"
    /\ ga_last = [op |-> "act", ret |-> "step_text"]
    /\ ga.plan_ready
    /\ ga.forward_plan = <<2, 1>>
    /\ ga.current_step_index = 1
    /\ ga.completed_steps = <<2>>

\* the speakers of the turns logged so far
Speakers == [k \in 1..(Len(conversation_log) - 1) |-> conversation_log[k + 1][1]]

\* C30: the conversation of HybridAgent.run opens with "Planner" when such a
\* role exists, otherwise with the first registered role, and rotates
\* round-robin in registration order, for exactly max_steps turns when no call
\* fails; with roles [Developer, Planner, Critic] and max_steps = 4 the
\* speakers are Planner, Critic, Developer, Planner.
C30_PlannerOpensRoundRobin ==
    (hy_pc \notin {"off", "idle", "planning"} /\ conversation_log # <<>>) =>
        /\ Len(Speakers) = turn
        /\ turn <= hy_max_steps
        /\ turn >= 1 =>
              Speakers[1] = IF \E i \in 1..Len(agents) : agents[i] = "Planner"
                            THEN "Planner" ELSE agents[1]
        /\ \A k \in 1..(turn - 1) :
              Speakers[k + 1] = agents[(IndexOf(agents, Speakers[k]) % Len(agents)) + 1]
        /\ hy_pc \in {"summary", "done"} => turn = hy_max_steps
        /\ (agents = <<"Developer", "Planner", "Critic">> /\ turn = 4) =>
              Speakers = <<"Planner", "Critic", "Developer", "Planner">>

\* the run over roles [Developer, Planner, Critic] with max_steps = 4 is done
C30_Witness ==
    /\ hy_pc = "done"
    /\ agents = <<"Developer", "Planner", "Critic">>
    /\ hy_max_steps = 4
    /\ turn = 4
    /\ Len(conversation_log) = 5
    /\ conversation_log[2][1] = "Planner"

====
